---- MODULE Spec2Model ----
(***************************************************************************)
(* A state-machine model of the tablet server's QueryExecutor              *)
(* (go/vt/tabletserver/query_executor.go): Execute / Stream and the        *)
(* helpers they call, together with the collaborators the executor drives  *)
(* (connection pools, transaction pool, consolidator, row cache, backend). *)
(* A request is a process; every step at which another request can         *)
(* observe or change shared state is one action.  Go's panic / defer is    *)
(* modelled by an error local (err # "nil" while unwinding) and explicit   *)
(* steps for the deferred calls, in the order the runtime runs them.       *)
(***************************************************************************)
EXTENDS Integers, Sequences, FiniteSets, TLC

\* ------------------------------------------------------------------ bounds
NProcs == 2          \* concurrent requests
MaxKey == 2          \* primary keys 1..MaxKey of the one table
PoolCap == 2         \* capacity of connPool, streamConnPool and the transaction pool
MaxRows == 3         \* PK rows of one statement: 0..MaxRows
MaxBatch == 2        \* maxDMLRows: 1..MaxBatch
MaxList == 2         \* PK values in the IN list of a cached read
spotCheckMultiplier == 2  \* Rand() % spotCheckMultiplier: 0..spotCheckMultiplier - 1

Procs == 1..NProcs
Keys == 1..MaxKey

VARIABLES
    pc,      \* [Procs -> label]: the position of each request
    req,     \* [Procs -> request]: (plan, bindVars, txID, ctx) of each request
    loc,     \* [Procs -> record]: the locals of the executor, and its history
    db,      \* [Keys -> Nat]: the backend's committed rows (0: no such row)
    txs,     \* the transaction pool: sequence of transaction connections
    cache,   \* [Keys -> [row, cas]]: the row cache (row 0: no entry)
    cons,    \* the consolidator's map, as the set of registered call ids
    calls,   \* every consolidator Call ever created: [sql, leader, Result, Err, done]
    pools,   \* free connections of connPool and streamConnPool
    qe,      \* the QueryEngine's tunables and counters
    hist     \* history of the row cache's keys, read by the properties only

vars == <<pc, req, loc, db, txs, cache, cons, calls, pools, qe, hist>>

\* ------------------------------------------------------------- pure helpers
Merge(r, s) == [f \in DOMAIN r \cup DOMAIN s |-> IF f \in DOMAIN s THEN s[f] ELSE r[f]]

Range(s) == {s[i] : i \in DOMAIN s}

RECURSIVE SumSeq(_)
SumSeq(s) == IF s = <<>> THEN 0 ELSE Head(s) + SumSeq(Tail(s))

RECURSIVE Concat(_)
Concat(ss) == IF ss = <<>> THEN <<>> ELSE Head(ss) \o Concat(Tail(ss))

\* A QueryResult: Rows is a sequence of rows <<pk, value>>.
NilResult == [isNil |-> TRUE, Rows |-> <<>>, RowsAffected |-> 0]
Result(rows, n) == [isNil |-> FALSE, Rows |-> rows, RowsAffected |-> n]

\* The backend's answer to a select restricted to the primary keys ks: the rows
\* that exist, once each, in primary-key order.
SelectRows(d, ks) ==
    LET all == [k \in Keys |-> <<k, d[k]>>]
    IN  SelectSeq(all, LAMBDA r : r[1] \in Range(ks) /\ r[2] # 0)

\* conn.Exec(ctx, sql, maxrows, wantfields): the rows, or the error of a
\* result of more than maxrows rows.
ExecRows(rows, maxrows) ==
    IF Len(rows) > maxrows
    THEN [Result |-> NilResult, Err |-> "Fail:Row count exceeded"]
    ELSE [Result |-> Result(rows, Len(rows)), Err |-> "nil"]

\* The final SQL of a statement: its template and the bind values it embeds.
FinalSql(template, ks) == <<template, ks>>

\* ------------------------------------------------------------ requests
\* What DDLParse makes of a statement: Action "" when it is not understood.
NoDDL == [Action |-> "", TableName |-> "", NewName |-> ""]
\* plan.SetValue: an int64, a float64 or something else.
IntVal(v) == [type |-> "int64", v |-> v]

\* A request: the plan (PlanId, Reason, Fields, TableInfo.CacheType, the PK rows
\* its PKValues or its subquery yield), the transaction id (inTx: the caller's
\* transaction, txID # 0) and what the policy gate sees of its context.
Request(plan, pk, inTx, cacheType) ==
    [plan |-> plan, pk |-> pk, inTx |-> inTx, cacheType |-> cacheType,
     fields |-> TRUE, reason |-> "", background |-> FALSE,
     rule |-> "QR_CONTINUE", authorized |-> TRUE, limit |-> -1,
     kind |-> "Execute", ddl |-> NoDDL, setKey |-> "", setVal |-> IntVal(0)]

\* The lists of PK rows a statement names.
PkLists == UNION {[1..n -> Keys] : n \in 0..MaxRows}
\* The lists that name each row once, in the order of the primary key.
KeyLists == {s \in PkLists : s # <<>> /\ \A i, j \in DOMAIN s : i < j => s[i] < s[j]}

NoEntry == [row |-> 0, cas |-> 0]

\* The cache key of a PK row.
buildKey(pk) == pk

\* The locals of one executor (a QueryExecutor is a per-request value) and the
\* history the properties read: gets / recycles / execs / waits count the
\* request's pool acquisitions, recycles, backend calls and consolidator waits.
InitLoc ==
    [txid |-> 0, conn |-> "none", pool |-> "", call |-> 0, created |-> FALSE,
     sql |-> <<>>, ret |-> "", reply |-> NilResult, err |-> "nil",
     rc |-> [k \in Keys |-> NoEntry], missing |-> <<>>, rows |-> <<>>,
     fromdb |-> <<>>, i |-> 0, maxRows |-> 0, batches |-> <<>>, auto |-> FALSE,
     gets |-> 0, recycles |-> 0, execs |-> 0, waits |-> 0, log |-> <<>>,
     usedAfter |-> FALSE, readDone |-> TRUE,
     stored |-> [Result |-> NilResult, Err |-> "nil"], cause |-> "",
     pkRows |-> <<>>, hits |-> 0, misses |-> 0, absent |-> 0, cancelled |-> FALSE, owner |-> "", poolErr |-> "", notified |-> <<>>, since |-> {}, firstHits |-> {}, ver |-> [k \in Keys |-> 0], late |-> {}]

Set(self, s) == [loc EXCEPT ![self] = Merge(@, s)]
Goto(self, l) == pc' = [pc EXCEPT ![self] = l]

\* A request is in flight from the moment Execute starts until it returns.
InFlight(p) == pc[p] \notin {"begin", "start", "returned", "done", "off"}

\* The QueryEngine: the tunables the executor reads, the other settings SET
\* hands on (pool capacities, timeouts, ...: the value last set, -1 before),
\* the tables the schema service knows and the list of active streams.
OtherSettings == {"vt_pool_size", "vt_stream_pool_size", "vt_transaction_cap",
                  "vt_transaction_timeout", "vt_schema_reload_time",
                  "vt_query_cache_size", "vt_query_timeout", "vt_idle_timeout",
                  "vt_txpool_timeout"}
QueryEngine(strictMode, maxDMLRows, enableAutoCommit, strictTableAcl) ==
    [strictTableAcl |-> strictTableAcl, strictMode |-> strictMode,
     maxDMLRows |-> maxDMLRows, enableAutoCommit |-> enableAutoCommit,
     spotCheckFreq |-> 0, maxResultSize |-> MaxRows, streamBufferSize |-> 1024,
     settings |-> [k \in OtherSettings |-> -1],
     schema |-> {"t"}, streamQList |-> {}, rechecks |-> {}, mismatches |-> 0]

\* ------------------------------------------------------------ connPool
\* ConnPool.Get: a free connection, or (context expired, pool closed) an error.
PoolErrs == {"ErrTimeout", "ErrConnPoolClosed"}
PoolTake(name) == pools' = [pools EXCEPT ![name] = @ - 1]
PoolPut(name) == pools' = [pools EXCEPT ![name] = @ + 1]

\* ------------------------------------------------------------ consolidator
\* Consolidator.Create(sql): the call registered for sql, if any.
ConsLookup(sql) == {c \in cons : calls[c].sql = sql}
NewCall(sql, leader) ==
    [sql |-> sql, leader |-> leader, Result |-> NilResult, Err |-> "nil", done |-> FALSE]

\* ------------------------------------------------------------ row cache
\* A Cas token nothing holds: not the token of an entry, nor one a request
\* keeps from its Get.
CasInUse ==
    {cache[k].cas : k \in Keys} \cup {loc[p].rc[k].cas : p \in Procs, k \in Keys}
        \cup {task.rcresult.cas : task \in qe.rechecks}
NewCas == CHOOSE n \in 1..(MaxKey * (NProcs + 2) + 1) :
              n \notin CasInUse /\ \A m \in 1..(n - 1) : m \in CasInUse

\* RowCache.Get(keys): the entry of every key asked for; a key without an
\* entry, like a key not asked for, reads as {nil, 0}.
CacheGet(keys) == [k \in Keys |-> IF k \in Range(keys) THEN cache[k] ELSE NoEntry]

\* RowCache.Set(key, row, cas): stores the row under a new Cas when the entry's
\* Cas still is cas (0: there is no entry); drops the write otherwise.
CacheSet(key, row, cas) ==
    IF cache[key].cas = cas
    THEN [cache EXCEPT ![key] = [row |-> row, cas |-> NewCas]]
    ELSE cache

\* (mutant) every PK row is asked of the backend again
MissingRowsAll(pkRows, rcresults) == pkRows

\* fetchMulti, the loop over pkRows: the cached rows, in the order of pkRows,
\* and the PK rows the cache has no row for.
CacheHits(pkRows, rcresults) ==
    LET hit == SelectSeq(pkRows, LAMBDA pk : rcresults[buildKey(pk)].row # 0)
    IN  [j \in DOMAIN hit |-> <<hit[j], rcresults[buildKey(hit[j])].row>>]
MissingRows(pkRows, rcresults) ==
    SelectSeq(pkRows, LAMBDA pk : rcresults[buildKey(pk)].row = 0)

\* fetchMulti's last lines: RowsAffected and the cut to limit.
FetchMultiResult(rows, limit) ==
    IF limit > 0 /\ Len(rows) > limit
    THEN Result(SubSeq(rows, 1, limit), limit)
    ELSE Result(rows, Len(rows))

\* ------------------------------------------------------------ Execute
\* (mutant) the gate looks at the rules and the ACL of every context
checkPermissionsAnyCtx(r) ==
    IF r.rule = "QR_FAIL" THEN "Fail:rule"
    ELSE IF r.rule = "QR_FAIL_RETRY" THEN "Retry:rule"
    ELSE IF ~r.authorized /\ qe.strictTableAcl THEN "Fail:acl"
    ELSE "nil"

\* checkPermissions: the error the policy gate raises, or "nil".
checkPermissions(r) ==
    IF r.background THEN "nil"
    ELSE IF r.rule = "QR_FAIL" THEN "Fail:rule"
    ELSE IF r.rule = "QR_FAIL_RETRY" THEN "Retry:rule"
    ELSE IF ~r.authorized /\ qe.strictTableAcl THEN "Fail:acl"
    ELSE "nil"

\* The return of Execute: its deferred stats function sees reply or the panic.
Return(self, s) ==
    /\ loc' = Set(self, s)
    /\ Goto(self, IF req[self].inTx THEN "returned" ELSE "done")

\* qFetch's first lines: generateFinalSql, then on to consolidator.Create.
qFetchCall(self, template, ks, ret, s) ==
    /\ loc' = Set(self, Merge(s, [sql |-> FinalSql(template, ks), ret |-> ret]))
    /\ Goto(self, "qCreate")

\* Execute: the policy gate rejects the request.
ExecuteDenied(self) ==
    /\ pc[self] = "start"
    /\ checkPermissions(req[self]) # "nil"
    /\ Return(self, [err |-> checkPermissions(req[self])])
    /\ UNCHANGED <<req, db, txs, cache, cons, calls, pools, qe, hist>>

\* Execute, PLAN_PASS_SELECT outside a transaction: execSelect, for a plan
\* with Fields, goes to qFetch without a connection.
ExecuteSelect(self) ==
    /\ pc[self] = "start" /\ req[self].kind = "Execute"
    /\ checkPermissions(req[self]) = "nil"
    /\ req[self].plan = "PLAN_PASS_SELECT" /\ ~req[self].inTx
    /\ req[self].fields \/ req[self].reason = "REASON_LOCK"
    /\ IF req[self].reason = "REASON_LOCK"
       THEN Return(self, [err |-> "Fail:lock"])
       ELSE qFetchCall(self, "FullQuery", req[self].pk, "execSelect", [err |-> "nil"])
    /\ UNCHANGED <<req, db, txs, cache, cons, calls, pools, qe, hist>>

\* (mutant) the request runs the query whether or not it created the call
qFetchAlwaysRun(created) == "qGet"

\* qFetch: consolidator.Create(sql).  The creator goes on to the pool, a
\* follower to Wait.
qFetchAfterCreate(created) == IF created THEN "qGet" ELSE "qWait"

qFetchCreate(self) ==
    /\ pc[self] = "qCreate"
    /\ LET found == ConsLookup(loc[self].sql)
       IN  IF found = {}
           THEN /\ calls' = Append(calls, NewCall(loc[self].sql, self))
                /\ cons' = cons \cup {Len(calls) + 1}
                /\ loc' = Set(self, [call |-> Len(calls) + 1, created |-> TRUE])
                /\ Goto(self, qFetchAfterCreate(TRUE))
           ELSE /\ loc' = Set(self, [call |-> CHOOSE c \in found : TRUE,
                                     created |-> FALSE])
                /\ Goto(self, qFetchAfterCreate(FALSE))
                /\ UNCHANGED <<calls, cons>>
    /\ UNCHANGED <<req, db, txs, cache, pools, qe, hist>>

\* qFetch, the creator: connPool.Get(ctx).  On an error it stores q.Err and
\* unwinds to the deferred Broadcast; otherwise execSQLNoPanic starts.
qFetchGetConn(self) ==
    /\ pc[self] = "qGet"
    /\ \/ /\ pools.connPool > 0
          /\ PoolTake("connPool")
          /\ loc' = Set(self, [conn |-> "held", pool |-> "connPool",
                               gets |-> loc[self].gets + 1,
                               execs |-> loc[self].execs + 1])
          /\ Goto(self, "qExec")
          /\ UNCHANGED calls
       \/ \E e \in PoolErrs :
          /\ calls' = [calls EXCEPT ![loc[self].call].Err = "Fatal:" \o e]
          /\ loc' = Set(self, [stored |-> [Result |-> NilResult, Err |-> "Fatal:" \o e],
                               poolErr |-> e])
          /\ Goto(self, "qBroadcast")
          /\ UNCHANGED pools
    /\ UNCHANGED <<req, db, txs, cache, cons, qe, hist>>

\* qFetch, the creator: conn.Exec returns; q.Result, q.Err are stored.
qFetchExec(self) ==
    /\ pc[self] = "qExec"
    /\ \E ok \in BOOLEAN :
          LET rows == SelectRows(db, loc[self].sql[2])
              res == IF ok THEN ExecRows(rows, qe.maxResultSize).Result ELSE NilResult
              e == IF ok THEN ExecRows(rows, qe.maxResultSize).Err ELSE "Fail:exec"
          IN  /\ calls' = [calls EXCEPT ![loc[self].call].Result = res,
                                        ![loc[self].call].Err = e]
              /\ loc' = Set(self, [stored |-> [Result |-> res, Err |-> e],
                                   usedAfter |-> loc[self].usedAfter
                                                 \/ loc[self].conn # "held"])
    /\ Goto(self, "qRecycle")
    /\ UNCHANGED <<req, db, txs, cache, cons, pools, qe, hist>>

\* (mutant) the connection is recycled only after an Exec that succeeded
qFetchRecycleOnSuccess(self) ==
    /\ pc[self] = "qRecycle"
    /\ IF loc[self].stored.Err = "nil"
       THEN /\ PoolPut("connPool")
            /\ loc' = Set(self, [conn |-> "recycled",
                                 recycles |-> loc[self].recycles + 1])
       ELSE UNCHANGED <<pools, loc>>
    /\ Goto(self, "qBroadcast")
    /\ UNCHANGED <<req, db, txs, cache, cons, calls, qe, hist>>

\* qFetch, the creator: the deferred conn.Recycle().
qFetchRecycle(self) ==
    /\ pc[self] = "qRecycle"
    /\ PoolPut("connPool")
    /\ loc' = Set(self, [conn |-> "recycled", recycles |-> loc[self].recycles + 1])
    /\ Goto(self, "qBroadcast")
    /\ UNCHANGED <<req, db, txs, cache, cons, calls, qe, hist>>

\* (mutant) the creator broadcasts only a call that has a result
qFetchBroadcastOnResult(self) ==
    /\ pc[self] = "qBroadcast"
    /\ IF loc[self].stored.Err = "nil"
       THEN /\ calls' = [calls EXCEPT ![loc[self].call].done = TRUE]
            /\ cons' = cons \ {loc[self].call}
       ELSE UNCHANGED <<calls, cons>>
    /\ Goto(self, "qReturn")
    /\ UNCHANGED <<req, loc, db, txs, cache, pools, qe, hist>>

\* qFetch, the creator: the deferred q.Broadcast() wakes the followers and
\* removes the call from the consolidator.
qFetchBroadcast(self) ==
    /\ pc[self] = "qBroadcast"
    /\ calls' = [calls EXCEPT ![loc[self].call].done = TRUE]
    /\ cons' = cons \ {loc[self].call}
    /\ Goto(self, "qReturn")
    /\ UNCHANGED <<req, loc, db, txs, cache, pools, qe, hist>>

\* (mutant) the follower does not wait for the broadcast
qFetchNoWait(self) ==
    /\ pc[self] = "qWait"
    /\ loc' = Set(self, [waits |-> loc[self].waits + 1])
    /\ Goto(self, "qReturn")
    /\ UNCHANGED <<req, db, txs, cache, cons, calls, pools, qe, hist>>

\* (mutant) the follower's wait is not recorded in WaitStats
qFetchWaitNoRecord(self) ==
    /\ pc[self] = "qWait"
    /\ calls[loc[self].call].done
    /\ Goto(self, "qReturn")
    /\ UNCHANGED <<req, loc, db, txs, cache, cons, calls, pools, qe, hist>>

\* qFetch, a follower: q.Wait() returns once the call was broadcast, and the
\* wait is recorded under "Consolidations".
qFetchWait(self) ==
    /\ pc[self] = "qWait"
    /\ calls[loc[self].call].done
    /\ loc' = Set(self, [waits |-> loc[self].waits + 1])
    /\ Goto(self, "qReturn")
    /\ UNCHANGED <<req, db, txs, cache, cons, calls, pools, qe, hist>>

\* The context of a follower is cancelled while it waits for a call not yet
\* broadcast: q.Wait() takes no context, the follower goes on waiting.
ctxCancel(self) ==
    /\ pc[self] = "qWait"
    /\ ~calls[loc[self].call].done
    /\ ~loc[self].cancelled
    /\ loc' = Set(self, [cancelled |-> TRUE])
    /\ UNCHANGED <<pc, req, db, txs, cache, cons, calls, pools, qe, hist>>

\* fetchMulti up to the cache's answer: a plan without Fields is "unexpected";
\* no PK rows or limit 0, no work; Cache.Get; the hits; with rows missing,
\* qFetch of OuterQuery for them.  With spotCheckFreq 0 mustVerify is false
\* and the loop over pkRows is one step; otherwise it runs hit by hit.
fetchMulti(self, pkRows, limit, h0) ==
    LET rcresults == CacheGet(pkRows)
        asked == {buildKey(pkRows[j]) : j \in DOMAIN pkRows}
        rows == CacheHits(pkRows, rcresults)
        missingRows == MissingRows(pkRows, rcresults)
        h == Merge(h0, [rc |-> rcresults, rows |-> rows, missing |-> missingRows,
                        pkRows |-> pkRows, hits |-> Len(rows),
                        since |-> hist.released, ver |-> hist.ver,
                        firstHits |-> {k \in asked \cap (hist.committed \ hist.read) :
                                          rcresults[k].row # 0}])
    IN  /\ IF ~req[self].fields
           THEN Return(self, Merge(h0, [err |-> "unexpected"])) /\ UNCHANGED hist
           ELSE IF Len(pkRows) = 0 \/ limit = 0
           THEN Return(self, Merge(h0, [reply |-> Result(<<>>, 0)])) /\ UNCHANGED hist
           ELSE /\ hist' = [hist EXCEPT !.read = @ \cup (asked \cap hist.committed)]
                /\ IF qe.spotCheckFreq # 0
                   THEN /\ loc' = Set(self, Merge(h, [rows |-> <<>>, missing |-> <<>>,
                                                      hits |-> 0, i |-> 1]))
                        /\ Goto(self, "fmLoop")
                   ELSE IF missingRows = <<>>
                   THEN Return(self, Merge(h, [reply |-> FetchMultiResult(rows, limit)]))
                   ELSE qFetchCall(self, "OuterQuery", missingRows, "fetchMulti", h)

\* qFetch's last lines, for creator and follower alike: panic(q.Err) or
\* return q.Result, to the caller of qFetch.
\* (mutant) absent is counted without the hits
absentOfAll(pkRows, hits, misses) == Len(pkRows) - misses
\* fetchMulti: absent = int64(len(pkRows)) - hits - misses
absent(pkRows, hits, misses) == Len(pkRows) - hits - misses

qFetchReturn(self) ==
    /\ pc[self] = "qReturn"
    /\ LET q == calls[loc[self].call]
           h == [readDone |-> q.done]
           lim == IF req[self].plan = "PLAN_PK_IN" THEN req[self].limit ELSE -1
           misses == Len(q.Result.Rows)
           counted == [misses |-> misses,
                       absent |-> absent(loc[self].pkRows, loc[self].hits, misses)]
       IN  IF q.Err # "nil" THEN Return(self, Merge(h, [err |-> q.Err])) /\ UNCHANGED hist
           ELSE CASE loc[self].ret = "execSelect" ->
                     Return(self, Merge(h, [reply |-> q.Result])) /\ UNCHANGED hist
                  [] loc[self].ret = "execSubquery" ->
                     fetchMulti(self, [j \in DOMAIN q.Result.Rows |-> q.Result.Rows[j][1]],
                                -1, h)
                  [] loc[self].ret = "spotCheck" ->
                     /\ loc' = Set(self, Merge(h, [fromdb |-> q.Result.Rows]))
                     /\ Goto(self, "spotCompare")
                     /\ UNCHANGED hist
                  [] loc[self].ret = "fetchMulti" ->
                     /\ IF q.Result.Rows = <<>>
                        THEN Return(self, Merge(Merge(h, counted),
                                 [fromdb |-> <<>>,
                                  reply |-> FetchMultiResult(loc[self].rows, lim)]))
                        ELSE /\ loc' = Set(self, Merge(Merge(h, counted),
                                                       [fromdb |-> q.Result.Rows, i |-> 1]))
                             /\ Goto(self, "fmSet")
                     /\ UNCHANGED hist
    /\ UNCHANGED <<req, db, txs, cache, cons, calls, pools, qe>>

\* ------------------------------------------------------------ txPool
\* A transaction connection: pinned to its id from Begin until Commit or
\* Rollback; held while an executor has it from txPool.Get; writes are the
\* rows its statements changed (-1: untouched), visible to others at commit;
\* dirty is DirtyKeys of the one table; ops are the Commit / Rollback calls.
NewTx ==
    [state |-> "active", held |-> FALSE, writes |-> [k \in Keys |-> -1],
     dirty |-> {}, purged |-> FALSE, ops |-> <<>>, rollbackOk |-> TRUE]

\* The rows a statement of transaction t sees.
TxView(t) == [k \in Keys |-> IF txs[t].writes[k] = -1 THEN db[k] ELSE txs[t].writes[k]]

\* The backend's UPDATE / DELETE ... WHERE pk IN ks inside transaction t.
UpdateWrites(t, ks) ==
    [k \in Keys |-> IF k \in Range(ks) /\ TxView(t)[k] # 0 THEN t + 1 ELSE txs[t].writes[k]]
UpdateAffected(t, ks) == Cardinality({k \in Range(ks) : TxView(t)[k] # 0})

\* The backend's INSERT of rows with the primary keys ks inside transaction t:
\* a key that exists, or is given twice, is a duplicate-key error.
InsertOk(t, ks) ==
    /\ \A k \in Range(ks) : TxView(t)[k] = 0
    /\ Cardinality(Range(ks)) = Len(ks)
InsertWrites(t, ks) ==
    [k \in Keys |-> IF k \in Range(ks) THEN t + 1 ELSE txs[t].writes[k]]

\* TxPool.Begin, called by the client that owns the transaction.
ClientBegin(self) ==
    /\ pc[self] = "begin"
    /\ \/ /\ pools.txPool > 0
          /\ PoolTake("txPool")
          /\ txs' = Append(txs, NewTx)
          /\ loc' = Set(self, [txid |-> Len(txs) + 1])
          /\ Goto(self, "start")
       \/ /\ loc' = Set(self, [err |-> "ErrTxPoolFull"])
          /\ Goto(self, "done")
          /\ UNCHANGED <<txs, pools>>
    /\ UNCHANGED <<req, db, cache, cons, calls, qe, hist>>

\* ------------------------------------------------------------ DML
\* execDMLPKRows before its loop: no rows, no statement.
DMLPKRowsEntry(pkRows, maxDMLRows) ==
    IF Len(pkRows) = 0
    THEN [pc |-> "txRecycle", s |-> [reply |-> Result(<<>>, 0)]]
    ELSE [pc |-> "dmlBatch",
          s |-> [rows |-> pkRows, i |-> 0, maxRows |-> maxDMLRows,
                 reply |-> Result(<<>>, 0)]]

\* (mutant) PASS_DML goes to the backend whatever the strict mode
passDMLAnyMode(strictMode) == [pc |-> "dmlDirect", s |-> [err |-> "nil"]]

\* case PLAN_PASS_DML: the panic in strict mode, directFetch otherwise.
passDML(strictMode) ==
    IF strictMode # 0
    THEN [pc |-> "txRecycle", s |-> [err |-> "Fail:DML too complex"]]
    ELSE [pc |-> "dmlDirect", s |-> [err |-> "nil"]]

\* The switch on plan.PlanId that Execute (in a transaction) and
\* execDmlAutoCommit share: where the executor goes with the pinned connection.
\* bad: buildValueList fails on the plan's PKValues.
DmlSwitch(r, auto, bad) ==
    CASE r.plan = "PLAN_PASS_DML" -> passDML(qe.strictMode)
      [] r.plan = "PLAN_INSERT_PK" ->
           IF bad THEN [pc |-> "txRecycle", s |-> [err |-> "Fail:buildValueList"]]
           ELSE [pc |-> "insertExec", s |-> [rows |-> r.pk]]
      [] r.plan = "PLAN_INSERT_SUBQUERY" -> [pc |-> "insertSubquery", s |-> [err |-> "nil"]]
      [] r.plan = "PLAN_DML_PK" ->
           IF bad THEN [pc |-> "txRecycle", s |-> [err |-> "Fail:buildValueList"]]
           ELSE DMLPKRowsEntry(r.pk, qe.maxDMLRows)
      [] r.plan = "PLAN_DML_SUBQUERY" -> [pc |-> "dmlSubquery", s |-> [err |-> "nil"]]
      [] OTHER ->
           IF auto THEN [pc |-> "txRecycle", s |-> [err |-> "Fatal:unsupported query"]]
           ELSE [pc |-> "txExec", s |-> [err |-> "nil"]]

\* Execute with transactionID # 0: txPool.Get, defer conn.Recycle(), the
\* invalidator, and the switch on the plan.
ExecuteInTx(self) ==
    /\ pc[self] = "start" /\ req[self].kind = "Execute"
    /\ checkPermissions(req[self]) = "nil"
    /\ req[self].plan # "PLAN_DDL" /\ req[self].inTx
    /\ txs' = [txs EXCEPT ![loc[self].txid].held = TRUE]
    /\ \E bad \in BOOLEAN :
          LET d == DmlSwitch(req[self], FALSE, bad)
          IN  /\ loc' = Set(self, Merge([conn |-> "held", pool |-> "txPool",
                                         gets |-> loc[self].gets + 1], d.s))
              /\ Goto(self, d.pc)
    /\ UNCHANGED <<req, db, cache, cons, calls, pools, qe, hist>>

\* Execute outside a transaction, a plan of the default case:
\* execDmlAutoCommit (Begin, the "begin" log entry, the deferred commit or
\* rollback, txPool.Get, defer conn.Recycle(), the switch), or "unsupported
\* query" when auto-commit is off.
execDmlAutoCommit(self) ==
    /\ pc[self] = "start" /\ req[self].kind = "Execute"
    /\ checkPermissions(req[self]) = "nil"
    /\ ~req[self].inTx
    /\ req[self].plan \notin {"PLAN_DDL", "PLAN_PASS_SELECT", "PLAN_PK_IN",
                              "PLAN_SELECT_SUBQUERY", "PLAN_SET", "PLAN_OTHER"}
    /\ IF ~qe.enableAutoCommit
       THEN /\ Return(self, [err |-> "Fatal:unsupported query"])
            /\ UNCHANGED <<txs, pools>>
       ELSE \/ /\ pools.txPool > 0
               /\ PoolTake("txPool")
               /\ txs' = Append(txs, [NewTx EXCEPT !.held = TRUE])
               /\ \E bad \in BOOLEAN :
                     LET d == DmlSwitch(req[self], TRUE, bad)
                     IN  /\ loc' = Set(self, Merge([txid |-> Len(txs) + 1, auto |-> TRUE,
                                                    log |-> <<"begin">>,
                                                    conn |-> "held", pool |-> "txPool",
                                                    gets |-> loc[self].gets + 1], d.s))
                         /\ Goto(self, d.pc)
            \/ /\ Return(self, [err |-> "ErrTxPoolFull"])
               /\ UNCHANGED <<txs, pools>>
    /\ UNCHANGED <<req, db, cache, cons, calls, qe, hist>>

\* The use of the executor's connection for one backend call.
UseConn(self) == [usedAfter |-> loc[self].usedAfter \/ loc[self].conn # "held",
                  execs |-> loc[self].execs + 1]

\* PLAN_PASS_DML: directFetch of FullQuery on the pinned connection.
execPassDML(self) ==
    /\ pc[self] = "dmlDirect"
    /\ LET t == loc[self].txid
       IN  \/ /\ txs' = [txs EXCEPT ![t].writes = UpdateWrites(t, req[self].pk)]
              /\ loc' = Set(self, Merge(UseConn(self),
                              [reply |-> Result(<<>>, UpdateAffected(t, req[self].pk))]))
           \/ /\ loc' = Set(self, Merge(UseConn(self), [err |-> "Fail:exec"]))
              /\ UNCHANGED txs
    /\ Goto(self, "txRecycle")
    /\ UNCHANGED <<req, db, cache, cons, calls, pools, qe, hist>>

\* execInsertSubquery: directFetch of Subquery; no inner rows, nothing to
\* insert; otherwise the inner rows give the PK rows.
execInsertSubquery(self) ==
    /\ pc[self] = "insertSubquery"
    /\ \/ /\ IF Len(req[self].pk) = 0
             THEN /\ loc' = Set(self, Merge(UseConn(self), [reply |-> Result(<<>>, 0)]))
                  /\ Goto(self, "txRecycle")
             ELSE /\ loc' = Set(self, Merge(UseConn(self), [rows |-> req[self].pk]))
                  /\ Goto(self, "insertExec")
       \/ /\ loc' = Set(self, Merge(UseConn(self), [err |-> "Fail:exec"]))
          /\ Goto(self, "txRecycle")
    /\ UNCHANGED <<req, db, txs, cache, cons, calls, pools, qe, hist>>

\* execInsertPKRows: directFetch of OuterQuery with the stream comment.
execInsertPKRows(self) ==
    /\ pc[self] = "insertExec"
    /\ LET t == loc[self].txid
           ks == loc[self].rows
       IN  \/ /\ InsertOk(t, ks)
              /\ txs' = [txs EXCEPT ![t].writes = InsertWrites(t, ks)]
              /\ loc' = Set(self, Merge(UseConn(self), [reply |-> Result(<<>>, Len(ks))]))
           \/ /\ loc' = Set(self, Merge(UseConn(self), [err |-> "Fail:exec"]))
              /\ UNCHANGED txs
    /\ Goto(self, "txRecycle")
    /\ UNCHANGED <<req, db, cache, cons, calls, pools, qe, hist>>

\* execDMLSubquery: directFetch of Subquery gives the PK rows of the rows the
\* statement matches, then execDMLPKRows.
execDMLSubquery(self) ==
    /\ pc[self] = "dmlSubquery"
    /\ \/ LET inner == SelectRows(TxView(loc[self].txid), req[self].pk)
              d == DMLPKRowsEntry([j \in DOMAIN inner |-> inner[j][1]], qe.maxDMLRows)
          IN  /\ loc' = Set(self, Merge(UseConn(self), d.s))
              /\ Goto(self, d.pc)
       \/ /\ loc' = Set(self, Merge(UseConn(self), [err |-> "Fail:exec"]))
          /\ Goto(self, "txRecycle")
    /\ UNCHANGED <<req, db, txs, cache, cons, calls, pools, qe, hist>>

\* (mutant) the loop steps one row too far
BatchStepSkip(i, maxRows) == i + maxRows + 1

\* execDMLPKRows, the loop header: i += maxRows.
BatchStep(i, maxRows) == i + maxRows

\* execDMLPKRows, the end of the batch that starts at i.
BatchEnd(i, maxRows, len) == IF i + maxRows >= len THEN len ELSE i + maxRows

\* (mutant) the keys of the last batch only
InvalidateLastBatch(invalidator, pkRows, i) ==
    IF invalidator THEN {buildKey(pkRows[j]) : j \in (i + 1)..Len(pkRows)} ELSE {}

\* execDMLPKRows after its loop: every PK row goes to the invalidator, if any.
InvalidateKeys(invalidator, pkRows, i) ==
    IF invalidator THEN {buildKey(pkRows[j]) : j \in 1..Len(pkRows)} ELSE {}

\* The invalidator of Execute / execDmlAutoCommit: conn.DirtyKeys(TableName)
\* for a table with a cache, nil otherwise.
Invalidator(r) == r.cacheType # "CACHE_NONE"

\* execDMLPKRows: one iteration of the loop (directFetch of OuterQuery with
\* #pk = the batch) and, after the last, the invalidation.
execDMLPKRows(self) ==
    /\ pc[self] = "dmlBatch"
    /\ LET t == loc[self].txid
           pkRows == loc[self].rows
           i == loc[self].i
           end == BatchEnd(i, loc[self].maxRows, Len(pkRows))
           batch == SubSeq(pkRows, i + 1, end)
           n == UpdateAffected(t, batch)
           next == BatchStep(i, loc[self].maxRows)
       IN  \/ /\ loc' = Set(self, Merge(UseConn(self),
                          [reply |-> Result(<<>>, loc[self].reply.RowsAffected + n),
                           batches |-> Append(loc[self].batches, [rows |-> batch, n |-> n]),
                           i |-> next]))
              /\ IF next < Len(pkRows)
                 THEN /\ txs' = [txs EXCEPT ![t].writes = UpdateWrites(t, batch)]
                      /\ Goto(self, "dmlBatch")
                 ELSE /\ txs' = [txs EXCEPT
                            ![t].writes = UpdateWrites(t, batch),
                            ![t].dirty = @ \cup InvalidateKeys(Invalidator(req[self]), pkRows, i)]
                      /\ Goto(self, "txRecycle")
           \/ /\ loc' = Set(self, Merge(UseConn(self), [err |-> "Fail:exec"]))
              /\ Goto(self, "txRecycle")
              /\ UNCHANGED txs
    /\ UNCHANGED <<req, db, cache, cons, calls, pools, qe, hist>>

\* (mutant) the deferred function commits whatever recover() gave
DeferredAlwaysCommit(err) == "commit"

\* The deferred function of execDmlAutoCommit: Commit when recover() gave nil,
\* Rollback otherwise.
AutoCommitDeferred(err) == IF err = "nil" THEN "commit" ELSE "rollback"

\* (mutant) Execute rolls the caller's transaction back when it panics
afterRecycleUndo(auto, err) ==
    IF auto THEN AutoCommitDeferred(err)
    ELSE IF err # "nil" THEN "rollback" ELSE "return"

\* What follows the deferred conn.Recycle(): in execDmlAutoCommit its deferred
\* function; in Execute with the caller's transaction nothing but the return.
afterRecycle(auto, err) == IF auto THEN AutoCommitDeferred(err) ELSE "return"

\* The deferred conn.Recycle() of Execute / execDmlAutoCommit: the pinned
\* connection goes back to the transaction pool, still pinned.  Then Execute
\* returns, or the deferred function of execDmlAutoCommit runs: Commit when
\* recover() gave nil, Rollback otherwise.
TxRecycle(self) ==
    /\ pc[self] = "txRecycle"
    /\ txs' = [txs EXCEPT ![loc[self].txid].held = FALSE]
    /\ LET e == loc[self].err
           s == [conn |-> "recycled", recycles |-> loc[self].recycles + 1,
                 reply |-> IF e = "nil" THEN loc[self].reply ELSE NilResult,
                 cause |-> IF e = "nil" THEN "ok" ELSE e]
       IN  IF afterRecycle(loc[self].auto, e) # "return"
           THEN /\ loc' = Set(self, s)
                /\ Goto(self, afterRecycle(loc[self].auto, e))
           ELSE Return(self, s)
    /\ UNCHANGED <<req, db, cache, cons, calls, pools, qe, hist>>

\* The owner of the transaction decides: Commit or Rollback.
ClientCommit(self) ==
    /\ pc[self] = "returned"
    /\ loc' = Set(self, [owner |-> "commit"])
    /\ Goto(self, "commit")
    /\ UNCHANGED <<req, db, txs, cache, cons, calls, pools, qe, hist>>

ClientRollback(self) ==
    /\ pc[self] = "returned"
    /\ loc' = Set(self, [owner |-> "rollback"])
    /\ Goto(self, "rollback")
    /\ UNCHANGED <<req, db, txs, cache, cons, calls, pools, qe, hist>>

\* Commit: the backend's COMMIT makes the writes visible, or fails.
TxCommitExec(self) ==
    /\ pc[self] = "commit"
    /\ LET t == loc[self].txid
       IN  \/ /\ db' = [k \in Keys |-> TxView(t)[k]]
              /\ txs' = [txs EXCEPT ![t].state = "committed",
                                    ![t].ops = Append(@, "commit")]
              /\ hist' = [hist EXCEPT !.committed = @ \cup txs[t].dirty,
                                      !.read = @ \ txs[t].dirty,
                                      !.pre = [k \in Keys |->
                                          IF k \in txs[t].dirty THEN db[k] ELSE @[k]]]
           \/ /\ txs' = [txs EXCEPT ![t].state = "failed",
                                    ![t].ops = Append(@, "commit")]
              /\ UNCHANGED <<db, hist>>
    /\ Goto(self, "commitPurge")
    /\ UNCHANGED <<req, loc, cache, cons, calls, pools, qe>>

\* Commit: every dirty key is purged from the row cache ...
TxCommitPurge(self) ==
    /\ pc[self] = "commitPurge"
    /\ LET t == loc[self].txid
       IN  /\ cache' = [k \in Keys |-> IF k \in txs[t].dirty THEN NoEntry ELSE cache[k]]
           /\ txs' = [txs EXCEPT ![t].purged = (txs[t].dirty # {})]
           /\ hist' = [hist EXCEPT !.ver = [k \in Keys |->
                          IF k \in txs[t].dirty THEN @[k] + 1 ELSE @[k]]]
    /\ Goto(self, "commitRelease")
    /\ UNCHANGED <<req, loc, db, cons, calls, pools, qe>>

\* ... before the connection is unpinned and returned to the pool.  In
\* execDmlAutoCommit the "commit" log entry follows a Commit that did not panic.
TxCommitRelease(self) ==
    /\ pc[self] = "commitRelease"
    /\ PoolPut("txPool")
    /\ LET failed == txs[loc[self].txid].state = "failed"
       IN  loc' = Set(self,
                 IF ~loc[self].auto THEN [conn |-> loc[self].conn]
                 ELSE IF failed THEN [err |-> "Fail:commit", reply |-> NilResult]
                 ELSE [log |-> Append(loc[self].log, "commit")])
    /\ hist' = IF txs[loc[self].txid].state = "committed"
               THEN [hist EXCEPT !.released = @ \cup txs[loc[self].txid].dirty]
               ELSE hist
    /\ Goto(self, "done")
    /\ UNCHANGED <<req, db, txs, cache, cons, calls, qe>>

\* (mutant) the deferred function panics with the rollback's outcome
RollbackErrReplaces(err, rollbackOk) == IF rollbackOk THEN err ELSE "Fail:rollback"

\* The deferred function of execDmlAutoCommit after Rollback: panic(err) with
\* the recovered value.
RollbackRepanic(err, rollbackOk) == err

\* Rollback: the backend's ROLLBACK discards the writes (a failure is logged);
\* the connection is unpinned and returned to the pool.  In execDmlAutoCommit
\* the "rollback" log entry and the re-panic follow.
TxRollback(self) ==
    /\ pc[self] = "rollback"
    /\ PoolPut("txPool")
    /\ \E ok \in BOOLEAN :
          /\ txs' = [txs EXCEPT ![loc[self].txid].state = "rolledback",
                                ![loc[self].txid].ops = Append(@, "rollback"),
                                ![loc[self].txid].rollbackOk = ok,
                                ![loc[self].txid].writes = [k \in Keys |-> -1]]
          /\ loc' = Set(self,
                 IF loc[self].auto
                 THEN [log |-> Append(loc[self].log, "rollback"),
                       err |-> RollbackRepanic(loc[self].err, ok)]
                 ELSE [conn |-> loc[self].conn])
    /\ Goto(self, "done")
    /\ UNCHANGED <<req, db, cache, cons, calls, qe, hist>>

\* ------------------------------------------------------------ fetchMulti
\* Execute, PLAN_PK_IN outside a transaction: execPKIN (bad: buildValueList
\* fails), then fetchMulti with the plan's limit.
ExecutePKIN(self) ==
    /\ pc[self] = "start" /\ req[self].kind = "Execute"
    /\ checkPermissions(req[self]) = "nil"
    /\ req[self].plan = "PLAN_PK_IN" /\ ~req[self].inTx
    /\ \E bad \in BOOLEAN :
          IF bad THEN Return(self, [err |-> "Fail:buildValueList"]) /\ UNCHANGED hist
          ELSE fetchMulti(self, req[self].pk, req[self].limit, [err |-> "nil"])
    /\ UNCHANGED <<req, db, txs, cache, cons, calls, pools, qe>>

\* Execute, PLAN_SELECT_SUBQUERY outside a transaction: execSubquery starts
\* with qFetch of Subquery.
ExecuteSubquery(self) ==
    /\ pc[self] = "start" /\ req[self].kind = "Execute"
    /\ checkPermissions(req[self]) = "nil"
    /\ req[self].plan = "PLAN_SELECT_SUBQUERY" /\ ~req[self].inTx
    /\ qFetchCall(self, "Subquery", req[self].pk, "execSubquery", [err |-> "nil"])
    /\ UNCHANGED <<req, db, txs, cache, cons, calls, pools, qe, hist>>

\* mustVerify: what (Rand() % spotCheckMultiplier) < spotCheckFreq can be.
mustVerify(freq) == {r < freq : r \in 0..(spotCheckMultiplier - 1)}
\* rowsAreEqual, of rows of one column that are not null.
rowsAreEqual(row1, row2) == row1 = row2

\* fetchMulti with spot checks, the loop over pkRows: a hit joins the result,
\* after a spot check if mustVerify says so; a miss joins missingRows; after
\* the last PK row, the result, or qFetch of OuterQuery for the missing rows.
fetchMultiLoop(self) ==
    /\ pc[self] = "fmLoop"
    /\ LET pkRows == loc[self].pkRows
           i == loc[self].i
           lim == IF req[self].plan = "PLAN_PK_IN" THEN req[self].limit ELSE -1
       IN  IF i > Len(pkRows)
           THEN IF loc[self].missing = <<>>
                THEN Return(self, [reply |-> FetchMultiResult(loc[self].rows, lim)])
                ELSE qFetchCall(self, "OuterQuery", loc[self].missing, "fetchMulti",
                                [err |-> "nil"])
           ELSE LET rcresult == loc[self].rc[buildKey(pkRows[i])]
                IN  IF rcresult.row # 0
                    THEN \E verify \in mustVerify(qe.spotCheckFreq) :
                            IF verify
                            THEN qFetchCall(self, "OuterQuery", <<pkRows[i]>>, "spotCheck",
                                            [err |-> "nil"])
                            ELSE /\ loc' = Set(self,
                                        [rows |-> Append(loc[self].rows,
                                                         <<pkRows[i], rcresult.row>>),
                                         hits |-> loc[self].hits + 1, i |-> i + 1])
                                 /\ Goto(self, "fmLoop")
                    ELSE /\ loc' = Set(self, [missing |-> Append(loc[self].missing, pkRows[i]),
                                              i |-> i + 1])
                         /\ Goto(self, "fmLoop")
    /\ UNCHANGED <<req, db, txs, cache, cons, calls, pools, qe, hist>>

\* spotCheck after its qFetch: a backend row that is missing or differs from
\* the cached row launches recheckLater; the cached row joins the result.
spotCheck(self) ==
    /\ pc[self] = "spotCompare"
    /\ LET pk == loc[self].pkRows[loc[self].i]
           rcresult == loc[self].rc[buildKey(pk)]
           dbrow == IF loc[self].fromdb = <<>> THEN 0 ELSE loc[self].fromdb[1][2]
       IN  /\ qe' = IF dbrow = 0 \/ ~rowsAreEqual(rcresult.row, dbrow)
                    THEN [qe EXCEPT !.rechecks = @ \cup {[key |-> buildKey(pk),
                                                          rcresult |-> rcresult,
                                                          dbrow |-> dbrow]}]
                    ELSE qe
           /\ loc' = Set(self, [rows |-> Append(loc[self].rows, <<pk, rcresult.row>>),
                                fromdb |-> <<>>,
                                hits |-> loc[self].hits + 1, i |-> loc[self].i + 1])
    /\ Goto(self, "fmLoop")
    /\ UNCHANGED <<req, db, txs, cache, cons, calls, pools, hist>>

\* (mutant) a row that is still cached is reported, whatever its Cas
mustReportAnyCas(reloaded, rcresult) == reloaded.row # 0

\* recheckLater: the mismatch is reported unless the reloaded row is absent
\* or has changed.
mustReport(reloaded, rcresult) == ~(reloaded.row = 0 \/ reloaded.cas # rcresult.cas)

\* recheckLater, after its sleep: Cache.Get of the key, and the "Mismatch"
\* internal error or nothing.
recheckLater(task) ==
    /\ task \in qe.rechecks
    /\ qe' = [qe EXCEPT !.rechecks = @ \ {task},
                        !.mismatches = IF mustReport(CacheGet(<<task.key>>)[task.key],
                                                     task.rcresult)
                                       THEN @ + 1 ELSE @]
    /\ UNCHANGED <<pc, req, loc, db, txs, cache, cons, calls, pools, hist>>

\* fetchMulti, the loop over resultFromdb.Rows: the row joins the result and
\* goes to the cache with the Cas its key had in rcresults; after the last
\* row, the result.
fetchMultiSet(self) ==
    /\ pc[self] = "fmSet"
    /\ LET i == loc[self].i
           row == loc[self].fromdb[i]
           key == buildKey(row[1])
           rows == Append(loc[self].rows, row)
           stored == CacheSet(key, row[2], loc[self].rc[key].cas) # cache
           late == IF stored /\ hist.ver[key] # loc[self].ver[key]
                   THEN loc[self].late \cup {key} ELSE loc[self].late
       IN  /\ cache' = CacheSet(key, row[2], loc[self].rc[key].cas)
           /\ hist' = [hist EXCEPT !.ver[key] = IF stored THEN @ + 1 ELSE @]
           /\ IF i < Len(loc[self].fromdb)
              THEN /\ loc' = Set(self, [rows |-> rows, i |-> i + 1, late |-> late])
                   /\ Goto(self, "fmSet")
              ELSE Return(self, [rows |-> rows, late |-> late,
                                 reply |-> FetchMultiResult(rows,
                                     IF req[self].plan = "PLAN_PK_IN"
                                     THEN req[self].limit ELSE -1)])
    /\ UNCHANGED <<req, db, txs, cons, calls, pools, qe>>

\* The client whose SET is over sends its next statement, with a new executor.
NextStatement(self, reqs) ==
    /\ pc[self] = "done"
    /\ req[self].plan = "PLAN_SET"
    /\ \E r \in reqs : req' = [req EXCEPT ![self] = r]
    /\ loc' = [loc EXCEPT ![self] = InitLoc]
    /\ Goto(self, "start")
    /\ UNCHANGED <<db, txs, cache, cons, calls, pools, qe, hist>>

\* The client whose DML is over reads the rows it named back, through the
\* row cache, with a new executor.
ReadBack(self) ==
    /\ pc[self] = "done"
    /\ req[self].plan = "PLAN_DML_PK"
    /\ req' = [req EXCEPT ![self].plan = "PLAN_PK_IN", ![self].inTx = FALSE]
    /\ loc' = [loc EXCEPT ![self] = InitLoc]
    /\ Goto(self, "start")
    /\ UNCHANGED <<db, txs, cache, cons, calls, pools, qe, hist>>

\* ------------------------------------------------------------ getConn
\* getConn: ErrConnPoolClosed is raised as it is, any other error of pool.Get
\* as a Fatal tablet error.
getConnErr(e) == IF e = "ErrConnPoolClosed" THEN e ELSE "Fatal:" \o e

\* getConn(pool): the connection, and on to next; or the panic, with nothing
\* to recycle.
getConn(self, pool, next) ==
    \/ /\ pools[pool] > 0
       /\ PoolTake(pool)
       /\ loc' = Set(self, [conn |-> "held", pool |-> pool,
                            gets |-> loc[self].gets + 1])
       /\ Goto(self, next)
    \/ \E e \in PoolErrs :
       /\ Return(self, [err |-> getConnErr(e), poolErr |-> e])
       /\ UNCHANGED pools

\* The names execSet knows; a SET of any other name goes to the backend.
Tunables == OtherSettings \cup {"vt_max_result_size", "vt_max_dml_rows",
                                "vt_stream_buffer_size", "vt_spot_check_ratio",
                                "vt_strict_mode"}

\* Execute outside a transaction, the plans that take a connection of
\* connPool for one statement: PLAN_OTHER, execSelect for a plan without
\* Fields, execSet for a name it does not know.
ExecuteGetConn(self) ==
    /\ pc[self] = "start" /\ req[self].kind = "Execute"
    /\ checkPermissions(req[self]) = "nil"
    /\ ~req[self].inTx
    /\ \/ req[self].plan = "PLAN_OTHER"
       \/ /\ req[self].plan = "PLAN_PASS_SELECT"
          /\ ~req[self].fields /\ req[self].reason # "REASON_LOCK"
       \/ req[self].plan = "PLAN_SET" /\ req[self].setKey \notin Tunables
    /\ getConn(self, "connPool", "connExec")
    /\ UNCHANGED <<req, db, txs, cache, cons, calls, qe, hist>>

\* execSQL / fullFetch / directFetch on the connection of getConn: the
\* backend's answer, or its error as a panic.
connExec(self) ==
    /\ pc[self] = "connExec"
    /\ \/ LET rows == IF req[self].plan = "PLAN_PASS_SELECT"
                      THEN SelectRows(db, req[self].pk) ELSE <<>>
              r == ExecRows(rows, qe.maxResultSize)
          IN  loc' = Set(self, Merge(UseConn(self), [reply |-> r.Result, err |-> r.Err]))
       \/ loc' = Set(self, Merge(UseConn(self), [err |-> "Fail:exec"]))
    /\ Goto(self, "connRecycle")
    /\ UNCHANGED <<req, db, txs, cache, cons, calls, pools, qe, hist>>

\* The deferred conn.Recycle() after getConn, then the return or the panic.
connRecycle(self) ==
    /\ pc[self] = "connRecycle"
    /\ PoolPut(loc[self].pool)
    /\ Return(self, [conn |-> "recycled", recycles |-> loc[self].recycles + 1,
                     reply |-> IF loc[self].err = "nil" THEN loc[self].reply
                               ELSE NilResult])
    /\ UNCHANGED <<req, db, txs, cache, cons, calls, qe, hist>>

\* Execute with transactionID # 0, PLAN_OTHER (execSQL) and the default case
\* (execDirect: a select or set in a transaction): one statement on the
\* pinned connection.
txExec(self) ==
    /\ pc[self] = "txExec"
    /\ \/ LET rows == IF req[self].plan \in {"PLAN_PASS_SELECT", "PLAN_PK_IN",
                                            "PLAN_SELECT_SUBQUERY"}
                      THEN SelectRows(TxView(loc[self].txid), req[self].pk) ELSE <<>>
              r == ExecRows(rows, qe.maxResultSize)
          IN  loc' = Set(self, Merge(UseConn(self), [reply |-> r.Result, err |-> r.Err]))
       \/ loc' = Set(self, Merge(UseConn(self), [err |-> "Fail:exec"]))
    /\ Goto(self, "txRecycle")
    /\ UNCHANGED <<req, db, txs, cache, cons, calls, pools, qe, hist>>

\* ------------------------------------------------------------ execSet
\* getInt64, getFloat64: the value, or the panic for a value of another type.
getInt64(val) ==
    IF val.type = "int64" THEN [err |-> "nil", v |-> val.v]
    ELSE [err |-> "Fail:expecting int", v |-> 0]
getFloat64(val) ==
    IF val.type \in {"int64", "float64"} THEN [err |-> "nil", v |-> val.v]
    ELSE [err |-> "Fail:expecting number", v |-> 0]
\* getDuration: seconds to a Duration, v * 10^e nanoseconds.
getDuration(val) ==
    [err |-> getFloat64(val).err, v |-> [v |-> getFloat64(val).v, e |-> 9]]

\* (mutant) every sized tunable is only kept at 1 or above
outOfRangeBelowOne(key, v) == v < 1

\* (mutant) execSet takes a vt_max_dml_rows of 0
outOfRangeNegative(key, v) == IF key = "vt_stream_buffer_size" THEN v < 1024 ELSE v < 0

\* execSet, the range tests of the sized tunables.
outOfRange(key, v) == IF key = "vt_stream_buffer_size" THEN v < 1024 ELSE v < 1
\* The tablet error of a value out of range: the name and the value.
RangeErr(key, v) == "Fail:" \o key \o " out of range " \o ToString(v)

\* execSet for a name it knows: the QueryEngine after it, or the panic.  The
\* spot check frequency is kept as the ratio given.
execSet(q, key, val) ==
    LET i == getInt64(val)
        f == getFloat64(val)
        d == getDuration(val)
        Ok(qq) == [err |-> "nil", qe |-> qq]
        Err(e) == [err |-> e, qe |-> q]
        Setting(x) == IF x.err # "nil" THEN Err(x.err)
                      ELSE Ok([q EXCEPT !.settings[key] = x.v])
    IN  CASE key \in {"vt_pool_size", "vt_stream_pool_size", "vt_transaction_cap",
                      "vt_query_cache_size"} -> Setting(i)
          [] key \in {"vt_transaction_timeout", "vt_schema_reload_time",
                      "vt_query_timeout", "vt_idle_timeout", "vt_txpool_timeout"} ->
               Setting(d)
          [] key = "vt_max_result_size" ->
               IF i.err # "nil" THEN Err(i.err)
               ELSE IF outOfRange(key, i.v) THEN Err(RangeErr(key, i.v))
               ELSE Ok([q EXCEPT !.maxResultSize = i.v])
          [] key = "vt_max_dml_rows" ->
               IF i.err # "nil" THEN Err(i.err)
               ELSE IF outOfRange(key, i.v) THEN Err(RangeErr(key, i.v))
               ELSE Ok([q EXCEPT !.maxDMLRows = i.v])
          [] key = "vt_stream_buffer_size" ->
               IF i.err # "nil" THEN Err(i.err)
               ELSE IF outOfRange(key, i.v) THEN Err(RangeErr(key, i.v))
               ELSE Ok([q EXCEPT !.streamBufferSize = i.v])
          [] key = "vt_spot_check_ratio" ->
               IF f.err # "nil" THEN Err(f.err)
               ELSE Ok([q EXCEPT !.spotCheckFreq = f.v * spotCheckMultiplier])
          [] key = "vt_strict_mode" ->
               IF i.err # "nil" THEN Err(i.err)
               ELSE Ok([q EXCEPT !.strictMode = i.v])

\* Execute, PLAN_SET outside a transaction, a name execSet knows.
ExecuteSet(self) ==
    /\ pc[self] = "start" /\ req[self].kind = "Execute"
    /\ checkPermissions(req[self]) = "nil"
    /\ req[self].plan = "PLAN_SET" /\ ~req[self].inTx
    /\ req[self].setKey \in Tunables
    /\ LET r == execSet(qe, req[self].setKey, req[self].setVal)
       IN  /\ qe' = r.qe
           /\ Return(self, IF r.err # "nil" THEN [err |-> r.err]
                           ELSE [reply |-> Result(<<>>, 0)])
    /\ UNCHANGED <<req, db, txs, cache, cons, calls, pools, hist>>

\* ------------------------------------------------------------ execDDL
\* Execute, PLAN_DDL: execDDL up to its statement: a DDL that is not
\* understood fails; txPool.Begin (or its panic), the deferred SafeCommit,
\* txPool.Get, the deferred conn.Recycle().
ExecuteDDL(self) ==
    /\ pc[self] = "start" /\ req[self].kind = "Execute"
    /\ checkPermissions(req[self]) = "nil"
    /\ req[self].plan = "PLAN_DDL"
    /\ IF req[self].ddl.Action = ""
       THEN /\ Return(self, [err |-> "Fail:DDL is not understood"])
            /\ UNCHANGED <<txs, pools>>
       ELSE \/ /\ pools.txPool > 0
               /\ PoolTake("txPool")
               /\ txs' = Append(txs, [NewTx EXCEPT !.held = TRUE])
               /\ loc' = Set(self, [txid |-> Len(txs) + 1, conn |-> "held",
                                    pool |-> "txPool", gets |-> loc[self].gets + 1])
               /\ Goto(self, "ddlExec")
            \/ /\ Return(self, [err |-> "ErrTxPoolFull"])
               /\ UNCHANGED <<txs, pools>>
    /\ UNCHANGED <<req, db, cache, cons, calls, qe, hist>>

\* execDDL: execSQL of the statement, or its panic.
ddlExec(self) ==
    /\ pc[self] = "ddlExec"
    /\ \/ /\ loc' = Set(self, Merge(UseConn(self), [reply |-> Result(<<>>, 0)]))
          /\ Goto(self, "ddlSchema")
       \/ /\ loc' = Set(self, Merge(UseConn(self), [err |-> "Fail:exec"]))
          /\ Goto(self, "ddlRecycle")
    /\ UNCHANGED <<req, db, txs, cache, cons, calls, pools, qe, hist>>

\* The tables the schema service knows after execDDL's DropTable (a drop or a
\* rename) and CreateOrUpdateTable (a new name).
ddlSchemaAfter(schema, ddl) ==
    LET dropped == IF ddl.TableName # "" /\ ddl.TableName # ddl.NewName
                   THEN schema \ {ddl.TableName} ELSE schema
    IN  IF ddl.NewName # "" THEN dropped \cup {ddl.NewName} ELSE dropped

\* (mutant) the old name is dropped whenever the statement names a table
ddlCallsDropNamed(ddl) ==
    (IF ddl.TableName # "" THEN <<<<"DropTable", ddl.TableName>>>> ELSE <<>>)
    \o (IF ddl.NewName # "" THEN <<<<"CreateOrUpdateTable", ddl.NewName>>>> ELSE <<>>)

\* execDDL after execSQL: the calls it makes on the schema service.
ddlCalls(ddl) ==
    (IF ddl.TableName # "" /\ ddl.TableName # ddl.NewName
     THEN <<<<"DropTable", ddl.TableName>>>> ELSE <<>>)
    \o (IF ddl.NewName # "" THEN <<<<"CreateOrUpdateTable", ddl.NewName>>>> ELSE <<>>)

ddlSchema(self) ==
    /\ pc[self] = "ddlSchema"
    /\ qe' = [qe EXCEPT !.schema = ddlSchemaAfter(@, req[self].ddl)]
    /\ loc' = Set(self, [notified |-> ddlCalls(req[self].ddl)])
    /\ Goto(self, "ddlRecycle")
    /\ UNCHANGED <<req, db, txs, cache, cons, calls, pools, hist>>

\* execDDL: the deferred conn.Recycle().
ddlRecycle(self) ==
    /\ pc[self] = "ddlRecycle"
    /\ txs' = [txs EXCEPT ![loc[self].txid].held = FALSE]
    /\ loc' = Set(self, [conn |-> "recycled", recycles |-> loc[self].recycles + 1,
                         reply |-> IF loc[self].err = "nil" THEN loc[self].reply
                                   ELSE NilResult])
    /\ Goto(self, "safeCommit")
    /\ UNCHANGED <<req, db, cache, cons, calls, pools, qe, hist>>

\* execDDL: the deferred SafeCommit: the backend's COMMIT, its error
\* swallowed; the connection leaves the transaction pool.
SafeCommit(self) ==
    /\ pc[self] = "safeCommit"
    /\ PoolPut("txPool")
    /\ \E ok \in BOOLEAN :
          txs' = [txs EXCEPT ![loc[self].txid].state = IF ok THEN "committed" ELSE "failed",
                             ![loc[self].txid].ops = Append(@, "commit")]
    /\ Return(self, [conn |-> loc[self].conn])
    /\ UNCHANGED <<req, db, cache, cons, calls, qe, hist>>

\* ------------------------------------------------------------ Stream
\* Stream: checkPermissions, then getConn(streamConnPool).
Stream(self) ==
    /\ pc[self] = "start" /\ req[self].kind = "Stream"
    /\ checkPermissions(req[self]) = "nil"
    /\ getConn(self, "streamConnPool", "streamAdd")
    /\ UNCHANGED <<req, db, txs, cache, cons, calls, qe, hist>>

\* Stream: streamQList.Add(qd).
streamAdd(self) ==
    /\ pc[self] = "streamAdd"
    /\ qe' = [qe EXCEPT !.streamQList = @ \cup {self}]
    /\ Goto(self, "streamFetch")
    /\ UNCHANGED <<req, loc, db, txs, cache, cons, calls, pools, hist>>

\* fullStreamFetch / execStreamSQL: conn.Stream hands the rows to sendReply,
\* or fails, and the failure is raised as a Fail tablet error.
execStreamSQL(self) ==
    /\ pc[self] = "streamFetch"
    /\ \/ LET rows == SelectRows(db, req[self].pk)
          IN  loc' = Set(self, Merge(UseConn(self), [reply |-> Result(rows, Len(rows))]))
       \/ loc' = Set(self, Merge(UseConn(self), [err |-> "Fail:stream"]))
    /\ Goto(self, "streamRemove")
    /\ UNCHANGED <<req, db, txs, cache, cons, calls, pools, qe, hist>>

\* Stream: the deferred streamQList.Remove(qd); conn.Recycle() follows.
streamRemove(self) ==
    /\ pc[self] = "streamRemove"
    /\ qe' = [qe EXCEPT !.streamQList = @ \ {self}]
    /\ Goto(self, "connRecycle")
    /\ UNCHANGED <<req, loc, db, txs, cache, cons, calls, pools, hist>>

\* ------------------------------------------------------------ specifications
\* committed: the dirty keys of the transactions the backend has committed;
\* read: those of them a cache Get has asked for since; pre: the row each had
\* before that COMMIT; released: the dirty keys of the committed transactions
\* whose connection is back in the pool.
\* ver: how many times the cache entry of each key was set or invalidated.
InitHist == [committed |-> {}, read |-> {}, released |-> {},
             pre |-> [k \in Keys |-> 0], ver |-> [k \in Keys |-> 0]]

InitShared ==
    /\ loc = [p \in Procs |-> InitLoc]
    /\ txs = <<>>
    /\ cache = [k \in Keys |-> NoEntry]
    /\ cons = {}
    /\ calls = <<>>
    /\ pools = [connPool |-> PoolCap, streamConnPool |-> PoolCap, txPool |-> PoolCap]
    /\ hist = InitHist

\* Consolidated reads: concurrent PASS_SELECT requests whose plans have Fields.
ReqsCons == {Request("PLAN_PASS_SELECT", <<k>>, FALSE, "CACHE_NONE") : k \in Keys}

InitCons ==
    /\ InitShared
    /\ db = [k \in Keys |-> 1]
    /\ qe = QueryEngine(0, 1, TRUE, FALSE)
    /\ pc = [p \in Procs |-> "start"]
    /\ req \in [Procs -> ReqsCons]

NextCons ==
    \E self \in Procs :
          \/ ExecuteSelect(self)
          \/ qFetchCreate(self)
          \/ qFetchGetConn(self)
          \/ qFetchExec(self)
          \/ qFetchRecycle(self)
          \/ qFetchBroadcast(self)
          \/ qFetchWait(self)
          \/ qFetchReturn(self)

SpecCons == InitCons /\ [][NextCons]_vars

\* Two consolidated reads that each go on running: a goroutine that can take
\* its next step takes it, and the calls it makes on the pool and on the
\* backend return.
InitConsLive ==
    /\ InitShared
    /\ db = [k \in Keys |-> 1]
    /\ qe = QueryEngine(0, 1, TRUE, FALSE)
    /\ pc = [p \in Procs |-> IF p > 2 THEN "off" ELSE "start"]
    /\ \E r1, r2 \in ReqsCons : req = [p \in Procs |-> IF p = 1 THEN r1 ELSE r2]

ConsStep(self) ==
    \/ ExecuteSelect(self)
    \/ qFetchCreate(self)
    \/ qFetchGetConn(self)
    \/ qFetchExec(self)
    \/ qFetchRecycle(self)
    \/ qFetchBroadcast(self)
    \/ qFetchWait(self)
    \/ qFetchReturn(self)

SpecConsLive ==
    InitConsLive /\ [][NextCons]_vars /\ \A self \in Procs : WF_vars(ConsStep(self))

\* Consolidated reads whose callers may cancel their context while they wait.
NextCancel == NextCons \/ \E self \in Procs : ctxCancel(self)

SpecCancel == InitCons /\ [][NextCancel]_vars

\* DML: one request at a time, in the caller's transaction or auto-committed,
\* of every DML plan, over every list of up to MaxRows PK rows.
DmlPlans == {"PLAN_PASS_DML", "PLAN_INSERT_PK", "PLAN_INSERT_SUBQUERY",
             "PLAN_DML_PK", "PLAN_DML_SUBQUERY"}
ReqsDml ==
    {Request(plan, pk, inTx, ct) :
        plan \in DmlPlans, pk \in PkLists, inTx \in BOOLEAN,
        ct \in {"CACHE_NONE", "CACHE_RW"}}

InitDml ==
    /\ InitShared
    /\ db = [k \in Keys |-> IF k = 1 THEN 1 ELSE 0]
    /\ \E sm \in {0, 1}, b \in 1..MaxBatch, ac \in BOOLEAN :
          qe = QueryEngine(sm, b, ac, FALSE)
    /\ \E r \in ReqsDml :
          /\ req = [p \in Procs |-> r]
          /\ pc = [p \in Procs |-> IF p # 1 THEN "off"
                                    ELSE IF r.inTx THEN "begin" ELSE "start"]

NextDml ==
    \E self \in Procs :
          \/ ClientBegin(self)
          \/ ExecuteInTx(self)
          \/ execDmlAutoCommit(self)
          \/ execPassDML(self)
          \/ execInsertSubquery(self)
          \/ execInsertPKRows(self)
          \/ execDMLSubquery(self)
          \/ execDMLPKRows(self)
          \/ TxRecycle(self)
          \/ ClientCommit(self)
          \/ ClientRollback(self)
          \/ TxCommitExec(self)
          \/ TxCommitPurge(self)
          \/ TxCommitRelease(self)
          \/ TxRollback(self)

SpecDml == InitDml /\ [][NextDml]_vars

\* Reads through the row cache against a DML and its commit: client 1 runs a
\* DML_PK on the cached table, in its own transaction or auto-committed, and
\* then reads its rows back; client 2 runs a PK_IN read.
ReqsCacheRead == {Request("PLAN_PK_IN", pk, FALSE, "CACHE_RW") : pk \in KeyLists}
ReqsCacheWrite ==
    {Request("PLAN_DML_PK", pk, inTx, "CACHE_RW") : pk \in KeyLists, inTx \in BOOLEAN}

InitCache ==
    /\ InitShared
    /\ db = [k \in Keys |-> IF k = 1 THEN 1 ELSE 0]
    /\ qe = QueryEngine(1, MaxBatch, TRUE, FALSE)
    /\ \E w \in ReqsCacheWrite, r \in ReqsCacheRead :
          /\ req = [p \in Procs |-> IF p = 1 THEN w ELSE r]
          /\ pc = [p \in Procs |-> IF p > 2 THEN "off"
                                    ELSE IF p = 1 /\ w.inTx THEN "begin" ELSE "start"]

NextCache ==
    \E self \in Procs :
          \/ ExecutePKIN(self)
          \/ qFetchCreate(self)
          \/ qFetchGetConn(self)
          \/ qFetchExec(self)
          \/ qFetchRecycle(self)
          \/ qFetchBroadcast(self)
          \/ qFetchWait(self)
          \/ qFetchReturn(self)
          \/ fetchMultiSet(self)
          \/ ReadBack(self)
          \/ ClientBegin(self)
          \/ ExecuteInTx(self)
          \/ execDmlAutoCommit(self)
          \/ execDMLPKRows(self)
          \/ TxRecycle(self)
          \/ ClientCommit(self)
          \/ ClientRollback(self)
          \/ TxCommitExec(self)
          \/ TxCommitPurge(self)
          \/ TxCommitRelease(self)
          \/ TxRollback(self)

SpecCache == InitCache /\ [][NextCache]_vars

\* Every shape of request: client 1 runs one request of any kind, against a
\* consolidated read of client 2.
DDLs == {NoDDL,
         [Action |-> "create", TableName |-> "", NewName |-> "u"],
         [Action |-> "alter", TableName |-> "t", NewName |-> "t"],
         [Action |-> "drop", TableName |-> "t", NewName |-> ""],
         [Action |-> "rename", TableName |-> "t", NewName |-> "u"]}
SetVals == {IntVal(0), IntVal(1), IntVal(1024), [type |-> "float64", v |-> 1],
            [type |-> "string", v |-> 0]}
Select(plan, inTx) == Request(plan, <<1>>, inTx, "CACHE_RW")
ReqsAll ==
    {[Select("PLAN_PASS_SELECT", FALSE) EXCEPT !.kind = "Stream"]}
    \cup {[Request("PLAN_DDL", <<>>, FALSE, "CACHE_NONE") EXCEPT !.ddl = d] : d \in DDLs}
    \cup {[Request("PLAN_SET", <<>>, FALSE, "CACHE_NONE") EXCEPT !.setKey = k, !.setVal = v] :
             k \in Tunables \cup {"sql_mode"}, v \in SetVals}
    \cup {[Select("PLAN_PASS_SELECT", FALSE) EXCEPT !.fields = f, !.reason = r] :
             f \in BOOLEAN, r \in {"", "REASON_LOCK"}}
    \cup {[Select("PLAN_PK_IN", FALSE) EXCEPT !.fields = f] : f \in BOOLEAN}
    \cup {Select(plan, inTx) :
             plan \in {"PLAN_PASS_SELECT", "PLAN_PK_IN", "PLAN_SELECT_SUBQUERY",
                       "PLAN_OTHER", "PLAN_SET"}, inTx \in BOOLEAN}
    \cup {Request(plan, pk, inTx, "CACHE_RW") :
             plan \in DmlPlans, pk \in {<<1>>, <<1, 2>>}, inTx \in BOOLEAN}
    \cup {[Select(plan, inTx) EXCEPT !.rule = r, !.authorized = a, !.background = b] :
             plan \in {"PLAN_PASS_SELECT", "PLAN_PK_IN", "PLAN_DML_PK"},
             inTx \in BOOLEAN, r \in {"QR_CONTINUE", "QR_FAIL", "QR_FAIL_RETRY"},
             a \in BOOLEAN, b \in BOOLEAN}
    \cup {[Select("PLAN_PASS_SELECT", FALSE) EXCEPT !.kind = "Stream", !.rule = r,
                                                    !.authorized = a] :
             r \in {"QR_CONTINUE", "QR_FAIL"}, a \in BOOLEAN}

Init ==
    /\ InitShared
    /\ db = [k \in Keys |-> IF k = 1 THEN 1 ELSE 0]
    /\ \E sm \in {0, 1}, ac \in BOOLEAN, acl \in BOOLEAN :
          qe = QueryEngine(sm, 1, ac, acl)
    /\ \E r \in ReqsAll :
          /\ req = [p \in Procs |-> IF p = 1 THEN r ELSE Select("PLAN_PASS_SELECT", FALSE)]
          /\ pc = [p \in Procs |-> IF p > 2 THEN "off"
                                    ELSE IF p = 1 /\ r.inTx THEN "begin" ELSE "start"]

Next ==
    \E self \in Procs :
          \/ ExecuteDenied(self)
          \/ ExecuteSelect(self)
          \/ ExecutePKIN(self)
          \/ ExecuteSubquery(self)
          \/ ExecuteGetConn(self)
          \/ ExecuteSet(self)
          \/ ExecuteDDL(self)
          \/ ExecuteInTx(self)
          \/ execDmlAutoCommit(self)
          \/ Stream(self)
          \/ qFetchCreate(self)
          \/ qFetchGetConn(self)
          \/ qFetchExec(self)
          \/ qFetchRecycle(self)
          \/ qFetchBroadcast(self)
          \/ qFetchWait(self)
          \/ qFetchReturn(self)
          \/ fetchMultiSet(self)
          \/ connExec(self)
          \/ connRecycle(self)
          \/ txExec(self)
          \/ ddlExec(self)
          \/ ddlSchema(self)
          \/ ddlRecycle(self)
          \/ SafeCommit(self)
          \/ streamAdd(self)
          \/ execStreamSQL(self)
          \/ streamRemove(self)
          \/ ClientBegin(self)
          \/ execPassDML(self)
          \/ execInsertSubquery(self)
          \/ execInsertPKRows(self)
          \/ execDMLSubquery(self)
          \/ execDMLPKRows(self)
          \/ TxRecycle(self)
          \/ ClientCommit(self)
          \/ ClientRollback(self)
          \/ TxCommitExec(self)
          \/ TxCommitPurge(self)
          \/ TxCommitRelease(self)
          \/ TxRollback(self)

Spec == Init /\ [][Next]_vars

\* SET statements on the sized tunables, one after the other, and then an
\* auto-committed DML_PK over MaxRows PK rows.
Sized == {"vt_max_result_size", "vt_max_dml_rows", "vt_stream_buffer_size"}
ReqsSet ==
    {[Request("PLAN_SET", <<>>, FALSE, "CACHE_NONE") EXCEPT !.setKey = k, !.setVal = IntVal(v)] :
        k \in Sized, v \in {-1, 0, 1, MaxBatch, 1023, 1024, 1025}}
ReqsSetDml ==
    {Request("PLAN_DML_PK", pk, FALSE, "CACHE_RW") :
        pk \in {s \in [1..MaxRows -> Keys] : \A i \in 1..(MaxRows - 1) : s[i] <= s[i + 1]}}

InitSet ==
    /\ InitShared
    /\ db = [k \in Keys |-> 1]
    /\ qe = QueryEngine(1, 1, TRUE, FALSE)
    /\ \E r \in ReqsSet :
          /\ req = [p \in Procs |-> r]
          /\ pc = [p \in Procs |-> IF p # 1 THEN "off" ELSE "start"]

NextSet ==
    \E self \in Procs :
          \/ ExecuteSet(self)
          \/ NextStatement(self, ReqsSet \cup ReqsSetDml)
          \/ execDmlAutoCommit(self)
          \/ execDMLPKRows(self)
          \/ TxRecycle(self)
          \/ TxCommitExec(self)
          \/ TxCommitPurge(self)
          \/ TxCommitRelease(self)
          \/ TxRollback(self)

SpecSet == InitSet /\ [][NextSet]_vars

\* SETs of vt_max_dml_rows next to a DML: client 1 sends a DML_PK or a
\* DML_SUBQUERY over MaxRows PK rows; client 2 sends SET statements, as many
\* as it likes and with good and bad values, before, while and after the DML
\* runs.  Every request runs on its own goroutine and every backend call
\* returns, so each client's steps are weakly fair.
ReqsTerm ==
    {[Request("PLAN_SET", <<>>, FALSE, "CACHE_NONE")
         EXCEPT !.setKey = "vt_max_dml_rows", !.setVal = IntVal(v)] :
        v \in {0, 1, MaxBatch}}
InitTerm ==
    /\ InitShared
    /\ db = [k \in Keys |-> 1]
    /\ qe = QueryEngine(1, 1, TRUE, FALSE)
    /\ pc = [p \in Procs |-> IF p > 2 THEN "off" ELSE "start"]
    /\ \E plan \in {"PLAN_DML_PK", "PLAN_DML_SUBQUERY"}, r2 \in ReqsTerm :
          LET pkRows == [i \in 1..MaxRows |-> ((i - 1) % MaxKey) + 1]
          IN  req = [p \in Procs |-> IF p = 1 THEN Request(plan, pkRows, FALSE, "CACHE_RW")
                                     ELSE r2]

TermStep(self) ==
    \/ ExecuteSet(self)
    \/ NextStatement(self, ReqsTerm)
    \/ execDmlAutoCommit(self)
    \/ execDMLSubquery(self)
    \/ execDMLPKRows(self)
    \/ TxRecycle(self)
    \/ TxCommitExec(self)
    \/ TxCommitPurge(self)
    \/ TxCommitRelease(self)
    \/ TxRollback(self)

NextTerm == \E self \in Procs : TermStep(self)

SpecTerm == InitTerm /\ [][NextTerm]_vars /\ \A self \in Procs : WF_vars(TermStep(self))

\* Spot checks: every row of the table is cached; client 1 changes rows with
\* an auto-committed DML_PK and reads them, client 2 reads by PK_IN; spot
\* checks are off, or made for some of the hits.
InitSpot ==
    /\ loc = [p \in Procs |-> InitLoc]
    /\ txs = <<>>
    /\ db \in {[k \in Keys |-> 1], [k \in Keys |-> IF k = MaxKey THEN 0 ELSE 1]}
    /\ cache = [k \in Keys |-> IF db[k] = 0 THEN NoEntry ELSE [row |-> 1, cas |-> k]]
    /\ cons = {}
    /\ calls = <<>>
    /\ pools = [connPool |-> PoolCap, streamConnPool |-> PoolCap, txPool |-> PoolCap]
    /\ hist = InitHist
    /\ \E f \in {0, 1} :
          qe = [QueryEngine(1, MaxBatch, TRUE, FALSE) EXCEPT !.spotCheckFreq = f]
    /\ \E w, r \in {s \in KeyLists : s[1] = 1 /\ Len(s) <= MaxList} :
          req = [p \in Procs |-> IF p = 1 THEN Request("PLAN_DML_PK", w, FALSE, "CACHE_RW")
                                 ELSE Request("PLAN_PK_IN", r, FALSE, "CACHE_RW")]
    /\ pc = [p \in Procs |-> IF p > 2 THEN "off" ELSE "start"]

\* The client whose DML is over reads the rows of its DML by PK_IN.
ReadAfterWrite(self) ==
    /\ pc[self] = "done"
    /\ req[self].plan = "PLAN_DML_PK"
    /\ req' = [req EXCEPT ![self] = Request("PLAN_PK_IN", req[self].pk, FALSE, "CACHE_RW")]
    /\ loc' = [loc EXCEPT ![self] = InitLoc]
    /\ Goto(self, "start")
    /\ UNCHANGED <<db, txs, cache, cons, calls, pools, qe, hist>>

NextSpot ==
    \/ \E self \in Procs :
          \/ ReadAfterWrite(self)
          \/ ExecutePKIN(self)
          \/ fetchMultiLoop(self)
          \/ spotCheck(self)
          \/ qFetchCreate(self)
          \/ qFetchGetConn(self)
          \/ qFetchExec(self)
          \/ qFetchRecycle(self)
          \/ qFetchBroadcast(self)
          \/ qFetchReturn(self)
          \/ fetchMultiSet(self)
          \/ execDmlAutoCommit(self)
          \/ execDMLPKRows(self)
          \/ TxRecycle(self)
          \/ TxCommitExec(self)
          \/ TxCommitPurge(self)
          \/ TxCommitRelease(self)
          \/ TxRollback(self)
    \/ \E task \in qe.rechecks : recheckLater(task)

SpecSpot == InitSpot /\ [][NextSpot]_vars

\* Reads through the row cache with no write: client 1 reads a list of
\* distinct keys, client 2 any list, by PK_IN (with or without a limit) or
\* through a subquery; what the first leaves in the cache the second finds.
ReadLists == {s \in PkLists : Len(s) <= MaxList}
ReqsRead ==
    {[Request("PLAN_PK_IN", pk, FALSE, "CACHE_RW") EXCEPT !.limit = l] :
        pk \in ReadLists, l \in {-1, 0, 1}}
    \cup {Request("PLAN_SELECT_SUBQUERY", pk, FALSE, "CACHE_RW") :
             pk \in ReadLists \cap (KeyLists \cup {<<>>})}

InitRead ==
    /\ InitShared
    /\ db \in {[k \in Keys |-> 1], [k \in Keys |-> IF k = 1 THEN 1 ELSE 0]}
    /\ \E m \in {1, MaxRows} : qe = [QueryEngine(1, 1, TRUE, FALSE) EXCEPT !.maxResultSize = m]
    /\ \E pk \in KeyLists, r \in ReqsRead :
          req = [p \in Procs |-> IF p = 1 THEN Request("PLAN_PK_IN", pk, FALSE, "CACHE_RW")
                                 ELSE r]
    /\ pc = [p \in Procs |-> IF p > 2 THEN "off" ELSE "start"]

NextRead ==
    \E self \in Procs :
          \/ ExecutePKIN(self)
          \/ ExecuteSubquery(self)
          \/ qFetchCreate(self)
          \/ qFetchGetConn(self)
          \/ qFetchExec(self)
          \/ qFetchRecycle(self)
          \/ qFetchBroadcast(self)
          \/ qFetchWait(self)
          \/ qFetchReturn(self)
          \/ fetchMultiSet(self)

SpecRead == InitRead /\ [][NextRead]_vars

\* ------------------------------------------------------------ properties
Done(p) == pc[p] = "done"
IsFollower(p) == loc[p].call # 0 /\ ~loc[p].created
SameRead(p, q) ==
    /\ p # q
    /\ req[p].plan = "PLAN_PASS_SELECT" /\ req[q].plan = "PLAN_PASS_SELECT"
    /\ req[p].pk = req[q].pk

\* C2: under the consolidator, no two backend Execs of the same final SQL are
\* in progress at the same instant.
C2_AtMostOneExec ==
    \A p, q \in Procs :
        (p # q /\ pc[p] = "qExec" /\ pc[q] = "qExec") => loc[p].sql # loc[q].sql

\* A request waits on the call of another whose Exec of the same SQL is in progress.
C2_Witness ==
    \E p, q \in Procs :
        /\ pc[p] = "qExec" /\ pc[q] = "qWait"
        /\ loc[p].sql = loc[q].sql /\ loc[q].call = loc[p].call

\* C3: a follower that left qFetch read the call after its broadcast, the call is
\* the one its leader created for the same SQL, and the follower returns the
\* Result, or raises the Err, that this leader stored.
C3_FollowerSeesLeaderStore ==
    \A p \in Procs :
        (IsFollower(p) /\ Done(p)) =>
            LET q == calls[loc[p].call]
                l == q.leader
            IN  /\ loc[p].readDone
                /\ l # p /\ loc[l].call = loc[p].call /\ loc[l].created
                /\ q.sql = loc[p].sql
                /\ loc[p].err = loc[l].stored.Err
                /\ loc[p].err = "nil" => loc[p].reply = loc[l].stored.Result

\* A follower returned rows that its leader fetched.
C3_Witness ==
    \E p \in Procs :
        /\ IsFollower(p) /\ Done(p)
        /\ loc[p].err = "nil" /\ loc[p].reply.Rows # <<>>

\* C4 as stated, at the instants at which two identical PASS_SELECT requests
\* are both in flight: the backend has seen at most one Exec of their SQL, and
\* once both hold their answer it is the same and one of them recorded a wait.
C4_Original ==
    \A p, q \in Procs :
        (SameRead(p, q) /\ InFlight(p) /\ InFlight(q)) =>
            /\ loc[p].execs + loc[q].execs <= 1
            /\ (pc[p] = "qReturn" /\ pc[q] = "qReturn") =>
                   /\ loc[p].execs + loc[q].execs = 1
                   /\ calls[loc[p].call] = calls[loc[q].call]
                   /\ loc[p].waits + loc[q].waits = 1

\* C4 amended: when the second request's Create finds the first's call still
\* registered, the two make one Exec (none when the leader got no connection),
\* return the same Result or error, and the follower alone records one wait;
\* a request that created its own call makes its own acquisition and Exec.
C4_Consolidated ==
    \A p, q \in Procs :
        (SameRead(p, q) /\ Done(p) /\ Done(q) /\ loc[p].created) =>
            IF loc[q].call = loc[p].call
            THEN /\ ~loc[q].created
                 /\ loc[p].execs + loc[q].execs = loc[p].gets
                 /\ loc[q].gets = 0 /\ loc[p].gets \in {0, 1}
                 /\ loc[p].reply = loc[q].reply /\ loc[p].err = loc[q].err
                 /\ loc[p].waits = 0 /\ loc[q].waits = 1
            ELSE /\ loc[p].execs = loc[p].gets /\ loc[p].waits = 0
                 /\ loc[q].created =>
                        (loc[q].execs = loc[q].gets /\ loc[q].waits = 0)

\* Two identical reads were consolidated into one Exec and both returned its rows.
C4_Witness ==
    \E p, q \in Procs :
        /\ SameRead(p, q) /\ Done(p) /\ Done(q)
        /\ loc[q].call = loc[p].call /\ loc[p].created
        /\ loc[p].execs = 1 /\ loc[q].waits = 1
        /\ loc[p].err = "nil" /\ loc[q].reply = loc[p].reply

IsDML(p) == req[p].plan \in {"PLAN_DML_PK", "PLAN_DML_SUBQUERY"}
Cached(p) == req[p].cacheType # "CACHE_NONE"
Ceil(n, b) == (n + b - 1) \div b
\* The rows transaction t changed on the backend.
Mutated(t) == {k \in Keys : txs[t].writes[k] # -1}
\* The request's transaction is about to be committed: Commit was called and
\* the backend's COMMIT has not run yet.
AtCommit(p) == pc[p] = "commit"

C8_CommitXorRollback ==
    \A p \in Procs :
        loc[p].auto =>
            LET t == loc[p].txid
            IN  /\ Len(txs[t].ops) <= 1
                /\ Done(p) =>
                     /\ loc[p].cause = "ok" =>
                          /\ txs[t].ops = <<"commit">>
                          /\ "rollback" \notin Range(loc[p].log)
                     /\ loc[p].cause # "ok" =>
                          /\ txs[t].ops = <<"rollback">>
                          /\ loc[p].log = <<"begin", "rollback">>
                          /\ ~txs[t].purged
                          /\ db = [k \in Keys |-> IF k = 1 THEN 1 ELSE 0]

\* An auto-commit DML_PK that failed in a later batch was rolled back.
C8_Witness ==
    \E p \in Procs :
        /\ Done(p) /\ loc[p].auto /\ IsDML(p)
        /\ Len(loc[p].batches) > 0 /\ loc[p].cause = "Fail:exec"
        /\ txs[loc[p].txid].ops = <<"rollback">>

\* C9: the caller of an auto-commit DML that failed receives the error of the
\* DML, whatever the Rollback's outcome.
C9_UnderlyingError ==
    \A p \in Procs :
        (Done(p) /\ loc[p].auto /\ loc[p].cause # "ok") =>
            /\ loc[p].err = loc[p].cause
            /\ loc[p].err # "nil"
            /\ loc[p].reply = NilResult

\* An auto-commit DML failed on the backend, its Rollback failed too, and the
\* caller has the backend's error.
C9_Witness ==
    \E p \in Procs :
        /\ Done(p) /\ loc[p].auto /\ loc[p].cause = "Fail:exec"
        /\ ~txs[loc[p].txid].rollbackOk
        /\ loc[p].err = "Fail:exec"

\* C10: a DML_PK / DML_SUBQUERY over N > 0 PK rows that returned made
\* Ceil(N / maxDMLRows) OuterQuery executions, over consecutive slices of at
\* most maxDMLRows rows that together are the PK rows, and returns the sum of
\* their RowsAffected; over no rows it made none and returns 0.  While the
\* loop runs, the batches made are the rows before its position.
C10_Chunking ==
    \A p \in Procs :
        IsDML(p) =>
            LET N == Len(loc[p].rows)
                B == qe.maxDMLRows
                bs == loc[p].batches
                slices == [j \in DOMAIN bs |-> bs[j].rows]
                counts == [j \in DOMAIN bs |-> bs[j].n]
            IN  /\ \A j \in DOMAIN bs : Len(bs[j].rows) \in 1..B
                /\ pc[p] = "dmlBatch" =>
                     /\ loc[p].i < N
                     /\ Concat(slices) = SubSeq(loc[p].rows, 1, loc[p].i)
                /\ (pc[p] = "txRecycle" /\ loc[p].err = "nil") =>
                     /\ req[p].plan = "PLAN_DML_PK" => loc[p].rows = req[p].pk
                     /\ Len(bs) = Ceil(N, B)
                     /\ Concat(slices) = loc[p].rows
                     /\ loc[p].reply.RowsAffected = SumSeq(counts)
                     /\ loc[p].execs = Len(bs)
                                       + (IF req[p].plan = "PLAN_DML_SUBQUERY" THEN 1 ELSE 0)

\* A DML_PK over three PK rows in batches of two returned after two batches
\* that changed rows.
C10_Witness ==
    \E p \in Procs :
        /\ req[p].plan = "PLAN_DML_PK" /\ pc[p] = "txRecycle" /\ loc[p].err = "nil"
        /\ Len(loc[p].rows) = 3 /\ qe.maxDMLRows = 2
        /\ Len(loc[p].batches) = 2 /\ loc[p].reply.RowsAffected > 0

\* C6 as stated: the first cache Get of a key after a committed DML that
\* touched it finds no entry, whatever reads ran alongside the commit.
C6_Original ==
    \A p \in Procs : loc[p].firstHits = {}

\* C7 as stated: Commit has purged the dirty keys when it returns the
\* connection to the pool, and no read that starts after that gets the row
\* as it was before the commit from the cache.
C7_Original ==
    /\ \A p \in Procs :
           (pc[p] = "commitRelease" /\ txs[loc[p].txid].dirty # {}) =>
               txs[loc[p].txid].purged
    /\ \A p \in Procs : \A k \in loc[p].since :
           loc[p].rc[k].row # 0 => loc[p].rc[k].row # hist.pre[k]

\* The request is over: Execute or Stream returned or panicked.
Ended(p) == pc[p] \in {"done", "returned"}
\* The request holds a connection of the pool.
Holds(p, pool) == loc[p].conn = "held" /\ loc[p].pool = pool

\* C1: a request holds at most one connection at a time, every backend call
\* is made on a connection it holds, and when it is over it has recycled
\* every connection it got, once; so each pool misses exactly the connections
\* requests in flight hold, and a transaction's connection is out of the
\* transaction pool exactly while an executor holds it.
C1_ConnBalance ==
    /\ \A p \in Procs :
           /\ ~loc[p].usedAfter
           /\ loc[p].gets - loc[p].recycles = (IF loc[p].conn = "held" THEN 1 ELSE 0)
           /\ Ended(p) => loc[p].gets = loc[p].recycles
    /\ \A pool \in {"connPool", "streamConnPool"} :
           PoolCap - pools[pool] = Cardinality({p \in Procs : Holds(p, pool)})
    /\ \A t \in DOMAIN txs :
           txs[t].held <=> \E p \in Procs : Holds(p, "txPool") /\ loc[p].txid = t

\* A request that got a connection ended with an error, the connection recycled.
C1_Witness ==
    \E p \in Procs :
        /\ Ended(p) /\ loc[p].err # "nil"
        /\ loc[p].gets = 1 /\ loc[p].recycles = 1 /\ loc[p].execs = 1

\* Execute ran for the request and is over; the transaction pool had room.
Ran(p) ==
    /\ Ended(p)
    /\ req[p].inTx => loc[p].gets > 0
    /\ loc[p].err # "ErrTxPoolFull"

\* C11 as stated: in strict mode every PASS_DML fails with "DML too complex"
\* and makes no backend call; with strict mode 0 every PASS_DML reaches the
\* backend.
C11_Original ==
    \A p \in Procs :
        (req[p].plan = "PLAN_PASS_DML" /\ Ran(p)) =>
            IF qe.strictMode # 0
            THEN loc[p].err = "Fail:DML too complex" /\ loc[p].execs = 0
            ELSE loc[p].execs = 1

\* C11 amended: outside a transaction with auto-commit off a PASS_DML fails
\* with Fatal "unsupported query" whatever the strict mode; otherwise, on its
\* transaction connection, it fails with "DML too complex" and no backend
\* call in strict mode (an auto-commit is rolled back), and runs FullQuery
\* once with strict mode 0.
C11_StrictMode ==
    \A p \in Procs :
        (req[p].plan = "PLAN_PASS_DML" /\ Ran(p)) =>
            IF ~req[p].inTx /\ ~qe.enableAutoCommit
            THEN loc[p].err = "Fatal:unsupported query" /\ loc[p].execs = 0
            ELSE IF qe.strictMode # 0
            THEN /\ loc[p].err = "Fail:DML too complex" /\ loc[p].execs = 0
                 /\ Mutated(loc[p].txid) = {}
                 /\ loc[p].auto => txs[loc[p].txid].ops = <<"rollback">>
            ELSE loc[p].execs = 1

\* An auto-commit PASS_DML was rejected in strict mode and rolled back.
C11_Witness ==
    \E p \in Procs :
        /\ req[p].plan = "PLAN_PASS_DML" /\ Ran(p) /\ loc[p].auto
        /\ qe.strictMode # 0 /\ loc[p].err = "Fail:DML too complex"
        /\ txs[loc[p].txid].ops = <<"rollback">>

\* How often x occurs in the sequence s.
Count(s, x) == Cardinality({i \in DOMAIN s : s[i] = x})
\* The same rows, each as often, in whatever order.
SameRows(a, b) == \A x \in Range(a) \cup Range(b) : Count(a, x) = Count(b, x)
\* The PK rows fetchMulti is called with: the plan's own, or the subquery's.
ReadPKRows(p) ==
    IF req[p].plan = "PLAN_PK_IN" THEN req[p].pk
    ELSE LET inner == SelectRows(db, req[p].pk) IN [j \in DOMAIN inner |-> inner[j][1]]
\* A read through the row cache returned its rows, uncut by a limit.
ReadOk(p) ==
    /\ Done(p) /\ loc[p].err = "nil"
    /\ req[p].plan \in {"PLAN_PK_IN", "PLAN_SELECT_SUBQUERY"}
    /\ req[p].plan = "PLAN_PK_IN" => req[p].limit = -1

\* C12 as stated: with no write, a read through the cache returns the rows a
\* read of the same PK list on the backend returns.
C12_Original ==
    \A p \in Procs :
        ReadOk(p) =>
            /\ SameRows(loc[p].reply.Rows, SelectRows(db, ReadPKRows(p)))
            /\ loc[p].reply.RowsAffected = Len(SelectRows(db, ReadPKRows(p)))

\* The request's batch Get found a row for the PK value, or found none.
Hit(p, pk) == loc[p].rc[buildKey(pk)].row # 0
\* A PK_IN read, over and well, whose Get hit for some PK values and missed
\* for others.
Mixed(p) ==
    /\ Done(p) /\ loc[p].err = "nil" /\ req[p].plan = "PLAN_PK_IN"
    /\ \E i, j \in DOMAIN req[p].pk : Hit(p, req[p].pk[i]) /\ ~Hit(p, req[p].pk[j])
\* The PK values of the rows of a result, in the order of the result.
RowKeys(rows) == [j \in DOMAIN rows |-> rows[j][1]]
\* The first rows of a result, as the limit of the plan has it.
Cut(rows, limit) == IF limit > 0 /\ Len(rows) > limit THEN SubSeq(rows, 1, limit) ELSE rows

\* C13 as stated: #pk holds exactly the PK rows that missed, and the rows
\* come back in the order of the input PK values.
C13_Original ==
    \A p \in Procs :
        Mixed(p) =>
            /\ loc[p].sql = <<"OuterQuery", SelectSeq(req[p].pk, LAMBDA pk : ~Hit(p, pk))>>
            /\ RowKeys(loc[p].reply.Rows)
                   = Cut(SelectSeq(req[p].pk, LAMBDA pk : db[pk] # 0), req[p].limit)

\* C13: for a PK_IN read with hits and misses, the backend OuterQuery is
\* issued with #pk holding exactly the PK rows that missed, in input order,
\* and the result is the cached rows in input-PK order followed by the rows
\* the backend returned, cut to the plan's limit.
C13_HitsThenMisses ==
    \A p \in Procs :
        Mixed(p) =>
            LET hits == SelectSeq(req[p].pk, LAMBDA pk : Hit(p, pk))
                miss == SelectSeq(req[p].pk, LAMBDA pk : ~Hit(p, pk))
            IN  /\ loc[p].sql = <<"OuterQuery", miss>>
                /\ RowKeys(loc[p].reply.Rows)
                       = Cut(hits \o RowKeys(SelectRows(db, miss)), req[p].limit)
                /\ \A j \in DOMAIN loc[p].reply.Rows :
                       loc[p].reply.Rows[j][2] = db[loc[p].reply.Rows[j][1]]
\* PKs (1, 2) with only 2 cached: the rows come back in the order 2, 1.
C13_Witness ==
    \E p \in Procs :
        /\ Mixed(p) /\ req[p].pk = <<1, 2>> /\ req[p].limit = -1
        /\ Hit(p, 2) /\ ~Hit(p, 1)
        /\ loc[p].sql = <<"OuterQuery", <<1>>>>
        /\ RowKeys(loc[p].reply.Rows) = <<2, 1>>

\* C14 as stated: a Set of fetchMulti carries the Cas its request's Get
\* returned for the key, and it leaves the cache as it is whenever the key's
\* entry was set or invalidated between that Get and the Set.
C14_Original == \A p \in Procs : loc[p].late = {}

\* C15 as stated: no Execute returns more than maxResultSize rows, whatever
\* the plan, a result put together from cache hits and backend rows included
\* (looked at for the requests that name no key twice).
C15_Original ==
    \A p \in Procs :
        (Ended(p) /\ req[p].kind = "Execute" /\ req[p].pk \in KeyLists \cup {<<>>})
            => Len(loc[p].reply.Rows) <= qe.maxResultSize

\* C16 as stated: a follower whose context is cancelled while it waits for
\* the broadcast fails, and does not return the result of the call.
C16_Original ==
    \A p \in Procs :
        (Done(p) /\ IsFollower(p) /\ loc[p].cancelled)
            => loc[p].err # "nil" /\ loc[p].reply.isNil

\* Execute or Stream was called and is over: the caller of a request in a
\* transaction got its transaction first.
Executed(p) == Ended(p) /\ ~(req[p].inTx /\ loc[p].err = "ErrTxPoolFull")
\* The errors of the policy gate.
GateErrs == {"Fail:rule", "Retry:rule", "Fail:acl"}
\* The request has begun no transaction, taken no connection, looked at no
\* cache entry, joined no consolidated call and run nothing on the backend.
Untouched(p) ==
    /\ loc[p].gets = 0 /\ loc[p].execs = 0 /\ loc[p].call = 0
    /\ loc[p].rows = <<>> /\ loc[p].missing = <<>> /\ ~loc[p].auto
    /\ ~req[p].inTx => loc[p].txid = 0
    /\ p \notin qe.streamQList

\* C17: for a context that is not the background context, rule action Fail
\* ends the request in a Fail error, FailRetry in a Retry error, a user
\* missing from plan.Authorized in a Fail error in strictTableAcl mode and in
\* no error of the gate otherwise; a rejected request has done nothing else;
\* a request with the background context is never rejected by the gate.
C17_PolicyGate ==
    \A p \in Procs :
        Executed(p) =>
            LET r == req[p]
                e == loc[p].err
            IN  /\ r.background => e \notin GateErrs
                /\ (~r.background /\ r.rule = "QR_FAIL") => e = "Fail:rule"
                /\ (~r.background /\ r.rule = "QR_FAIL_RETRY") => e = "Retry:rule"
                /\ (~r.background /\ r.rule = "QR_CONTINUE" /\ ~r.authorized) =>
                       IF qe.strictTableAcl THEN e = "Fail:acl" ELSE e \notin GateErrs
                /\ (~r.background /\ r.rule = "QR_CONTINUE" /\ r.authorized) =>
                       e \notin GateErrs
                /\ e \in GateErrs => Untouched(p) /\ loc[p].reply.isNil
\* An auto-commit DML of a user not in the ACL is rejected in strict mode
\* before its transaction is begun.
C17_Witness ==
    \E p \in Procs :
        /\ Done(p) /\ req[p].plan = "PLAN_DML_PK" /\ ~req[p].background
        /\ req[p].rule = "QR_CONTINUE" /\ ~req[p].authorized /\ qe.strictTableAcl
        /\ loc[p].err = "Fail:acl" /\ Untouched(p) /\ txs = <<>>

\* The tunable a SET of a sized name writes.
Tunable(q, key) ==
    CASE key = "vt_max_result_size" -> q.maxResultSize
      [] key = "vt_max_dml_rows" -> q.maxDMLRows
      [] key = "vt_stream_buffer_size" -> q.streamBufferSize
\* Execute of a SET of a sized tunable to an int64, outside a transaction.
IsSizedSet(p) ==
    /\ req[p].plan = "PLAN_SET" /\ ~req[p].inTx /\ req[p].kind = "Execute"
    /\ req[p].setKey \in Sized /\ req[p].setVal.type = "int64"
\* The value is below what the tunable may be.
TooSmall(p) ==
    req[p].setVal.v < (IF req[p].setKey = "vt_stream_buffer_size" THEN 1024 ELSE 1)
\* What holds in every state: the tunables are in range; a SET that is over
\* failed with the name and the value, or wrote the value; a DML_PK cuts its
\* PK rows at maxDMLRows.
SetState ==
    /\ qe.maxResultSize >= 1 /\ qe.maxDMLRows >= 1 /\ qe.streamBufferSize >= 1024
    /\ \A p \in Procs :
           (Done(p) /\ IsSizedSet(p) /\ checkPermissions(req[p]) = "nil") =>
               IF TooSmall(p)
               THEN /\ loc[p].err = "Fail:" \o req[p].setKey \o " out of range "
                                        \o ToString(req[p].setVal.v)
                    /\ loc[p].reply.isNil
               ELSE /\ loc[p].err = "nil"
                    /\ Tunable(qe, req[p].setKey) = req[p].setVal.v
    /\ \A p \in Procs :
           (req[p].plan = "PLAN_DML_PK" /\ loc[p].batches # <<>>) =>
               LET bs == loc[p].batches
                   B == qe.maxDMLRows
               IN  /\ \A j \in DOMAIN bs : Len(bs[j].rows) <= B
                   /\ \A j \in DOMAIN bs : j < Len(bs) => Len(bs[j].rows) = B
                   /\ (Done(p) /\ loc[p].err = "nil") => Len(bs) = Ceil(Len(req[p].pk), B)
\* What holds of every step: a SET that fails leaves every tunable as it
\* was, and a sized tunable changes only by a SET of its name, to the value.
SetStep ==
    \A p \in Procs :
        /\ (pc[p] = "start" /\ IsSizedSet(p) /\ TooSmall(p)) => qe' = qe
        /\ \A k \in Sized :
               Tunable(qe', k) # Tunable(qe, k) =>
                   \E q \in Procs : /\ pc[q] = "start" /\ pc'[q] = "done" /\ IsSizedSet(q)
                                     /\ req[q].setKey = k /\ ~TooSmall(q)
                                     /\ Tunable(qe', k) = req[q].setVal.v

\* C18: a SET of vt_max_result_size or vt_max_dml_rows below 1, or of
\* vt_stream_buffer_size below 1024, fails with a Fail error that names the
\* variable and the value and leaves the tunable unchanged, so the three
\* stay in range after any sequence of SETs; a SET of a value in range
\* succeeds, and every later DML_PK cuts its PK rows at the new maxDMLRows.
C18_SetTunables == []SetState /\ [][SetStep]_vars
\* maxDMLRows was 1; after a SET of vt_max_dml_rows to MaxBatch a DML_PK over
\* MaxRows rows is over, in batches of MaxBatch.
C18_Witness ==
    \E p \in Procs :
        /\ Done(p) /\ req[p].plan = "PLAN_DML_PK" /\ loc[p].err = "nil"
        /\ qe.maxDMLRows = MaxBatch /\ MaxBatch > 1
        /\ Len(loc[p].batches[1].rows) = MaxBatch

\* C19: a DDL notifies the schema service only after its statement ran well
\* in its implicit transaction, before that transaction's commit:
\* DropTable(old name) exactly for a rename or a drop, then
\* CreateOrUpdateTable(new name) exactly for a create, an alter or a rename;
\* a DDL that is not understood or whose statement fails notifies nothing;
\* and a DDL whose statement ran well returns its result even when the
\* closing commit fails.
C19_SchemaNotify ==
    \A p \in Procs :
        req[p].plan = "PLAN_DDL" =>
            LET d == req[p].ddl
                n == loc[p].notified
                ran == loc[p].execs = 1 /\ loc[p].err = "nil"
            IN  /\ n # <<>> =>
                       /\ ran /\ pc[p] \in {"ddlRecycle", "safeCommit", "done"}
                       /\ pc[p] # "done" => txs[loc[p].txid].ops = <<>>
                /\ (Done(p) /\ ~ran) => n = <<>>
                /\ (Done(p) /\ ran) =>
                       /\ <<"DropTable", d.TableName>> \in Range(n)
                              <=> d.Action \in {"rename", "drop"}
                       /\ <<"CreateOrUpdateTable", d.NewName>> \in Range(n)
                              <=> d.Action \in {"create", "alter", "rename"}
                       /\ Len(n) = (IF d.Action = "rename" THEN 2 ELSE 1)
                       /\ d.Action = "rename" => n[1][1] = "DropTable"
                       /\ ~loc[p].reply.isNil
                       /\ txs[loc[p].txid].ops = <<"commit">>
\* A rename whose closing commit failed: both notifications were made and the
\* caller has the result.
C19_Witness ==
    \E p \in Procs :
        /\ Done(p) /\ req[p].plan = "PLAN_DDL" /\ req[p].ddl.Action = "rename"
        /\ loc[p].err = "nil" /\ ~loc[p].reply.isNil
        /\ txs[loc[p].txid].state = "failed"
        /\ loc[p].notified = <<<<"DropTable", "t">>, <<"CreateOrUpdateTable", "u">>>>
        /\ qe.schema = {"u"}

\* The error of the pool's Get that ended the request: its own Get's, or,
\* for a follower, the Get's of the creator of its call.
AcquireErr(p) ==
    IF loc[p].poolErr # "" THEN loc[p].poolErr
    ELSE IF IsFollower(p) /\ \E q \in Procs : loc[q].created /\ loc[q].call = loc[p].call
    THEN loc[CHOOSE q \in Procs : loc[q].created /\ loc[q].call = loc[p].call].poolErr
    ELSE ""

\* C20 as stated: on every path, a Get that failed because the pool is closed
\* reaches the caller as ErrConnPoolClosed and any other failure of Get as a
\* Fatal error, consolidated reads and their followers included.
C20_Original ==
    \A p \in Procs :
        Ended(p) =>
            /\ AcquireErr(p) = "ErrConnPoolClosed" => loc[p].err = "ErrConnPoolClosed"
            /\ AcquireErr(p) = "ErrTimeout" => loc[p].err = "Fatal:ErrTimeout"

\* The keys of the rows the batches the request executed changed.
AppliedKeys(p) ==
    {k \in Keys : db[k] # 0 /\ \E j \in DOMAIN loc[p].batches : k \in Range(loc[p].batches[j].rows)}

\* C21: Execute in a caller's transaction begins no transaction and calls
\* neither Commit nor Rollback on the caller's, whatever its outcome: until
\* the owner decides, the transaction is active and untouched by either, and
\* when Execute is over, also after a DML that failed past some batches, the
\* connection is recycled and still pinned and the batches applied are still
\* applied; afterwards the transaction has seen the owner's call only.
C21_CallerTx ==
    \A p \in Procs :
        (req[p].inTx /\ req[p].plan # "PLAN_DDL" /\ loc[p].txid # 0) =>
            LET t == loc[p].txid
            IN  /\ ~loc[p].auto
                /\ Len(txs) = Cardinality({q \in Procs : loc[q].txid # 0})
                /\ loc[p].owner = "" =>
                       /\ txs[t].ops = <<>> /\ txs[t].state = "active"
                       /\ AppliedKeys(p) \subseteq Mutated(t)
                /\ pc[p] = "returned" =>
                       /\ loc[p].owner = ""
                       /\ ~txs[t].held /\ loc[p].gets = loc[p].recycles
                       /\ loc[p].err \notin GateErrs =>
                              loc[p].conn = "recycled" /\ loc[p].gets = 1
                /\ loc[p].owner # "" =>
                       /\ pc[p] \notin {"start", "returned"}
                       /\ \A j \in DOMAIN txs[t].ops : txs[t].ops[j] = loc[p].owner
\* A DML in the caller's transaction failed in its second batch: the first
\* is applied, the transaction is active, nothing was committed or rolled back.
C21_Witness ==
    \E p \in Procs :
        /\ pc[p] = "returned" /\ req[p].inTx /\ IsDML(p)
        /\ loc[p].err = "Fail:exec" /\ Len(loc[p].batches) = 1
        /\ Mutated(loc[p].txid) # {} /\ Mutated(loc[p].txid) = AppliedKeys(p)
        /\ txs[loc[p].txid].ops = <<>> /\ txs[loc[p].txid].state = "active"

\* C22 as stated: when Execute of a DML_PK / DML_SUBQUERY on a cached table
\* ends in the caller's transaction, the key of every PK row of a batch that
\* was executed is in the connection's DirtyKeys, also when a later batch
\* failed.
C22_Original ==
    \A p \in Procs :
        (IsDML(p) /\ Cached(p) /\ req[p].inTx /\ pc[p] = "returned") =>
            \A j \in DOMAIN loc[p].batches :
                \A i \in DOMAIN loc[p].batches[j].rows :
                    buildKey(loc[p].batches[j].rows[i]) \in txs[loc[p].txid].dirty

\* C23: every follower stops waiting: the creator, however its attempt ends
\* (rows, a backend error, no connection), stores Result / Err and
\* broadcasts, so a follower that waits is in the end over; and a request
\* that arrives after the broadcast does not get the finished call's result
\* but creates a call and runs it itself.
C23_FollowersReleased ==
    /\ \A p \in Procs : (pc[p] = "qWait") ~> Done(p)
    /\ [](\A p \in Procs :
            (loc[p].created /\ pc[p] \in {"qReturn", "done"}) =>
                LET q == calls[loc[p].call]
                IN  /\ q.done /\ loc[p].call \notin cons
                    /\ q.Err = loc[p].stored.Err /\ q.Result = loc[p].stored.Result
                    /\ (q.Err = "nil") # q.Result.isNil)
    /\ [][\A p \in Procs :
            (pc[p] = "qCreate" /\ pc'[p] # "qCreate") =>
                /\ ~calls'[loc'[p].call].done
                /\ ~loc'[p].created => loc'[p].call \in cons /\ ~calls[loc'[p].call].done
                /\ (\A c \in DOMAIN calls : calls[c].sql = loc[p].sql => calls[c].done) =>
                       /\ loc'[p].created /\ pc'[p] = "qGet"
                       /\ loc'[p].call \notin DOMAIN calls]_vars
\* A follower waited for a creator that got no connection, and is over with
\* the creator's error; the other request of that SQL came after the
\* broadcast and ran the statement itself.
C23_Witness ==
    \E p \in Procs :
        /\ Done(p) /\ IsFollower(p) /\ loc[p].waits = 1
        /\ loc[p].err = "Fatal:ErrTimeout"

Counted(p, noQuery) ==
    LET allHit == \A i \in DOMAIN loc[p].pkRows : Hit(p, loc[p].pkRows[i])
    IN  (Done(p) /\ loc[p].err = "nil" /\ loc[p].pkRows # <<>>) =>
            /\ loc[p].hits + loc[p].misses + loc[p].absent = Len(loc[p].pkRows)
            /\ loc[p].absent >= 0
            /\ loc[p].hits = Len(SelectSeq(loc[p].pkRows, LAMBDA pk : Hit(p, pk)))
            /\ loc[p].misses = Len(loc[p].fromdb)
            /\ allHit => loc[p].misses = 0 /\ loc[p].absent = 0 /\ noQuery
C26_DmlTerminates ==
    /\ \A p \in Procs : (IsDML(p) /\ pc[p] = "start") ~> Done(p)
    /\ [](\A p \in Procs :
            /\ pc[p] = "dmlBatch" => loc[p].maxRows >= 1
            /\ IsDML(p) => Len(loc[p].batches) <= Len(req[p].pk))
    /\ [][\A p \in Procs :
            (pc[p] = "dmlBatch" /\ pc'[p] = "dmlBatch" /\ loc'[p] # loc[p]) =>
                /\ loc'[p].maxRows = loc[p].maxRows
                /\ loc'[p].i >= loc[p].i + 1]_vars
\* The loop of a DML began with vt_max_dml_rows at 1 and has made one batch
\* of one row; a SET has made vt_max_dml_rows MaxBatch since, and the loop
\* goes on with 1.
C26_Witness ==
    \E p \in Procs :
        /\ IsDML(p) /\ pc[p] = "dmlBatch" /\ loc[p].maxRows = 1
        /\ loc[p].i = 1 /\ Len(loc[p].batches) = 1
        /\ qe.maxDMLRows = MaxBatch

====
